---------------------------- MODULE Spec2Model ----------------------------
(***************************************************************************)
(* A model of the NTFS artifact parsers of MFTE-RS: the MFT parser with    *)
(* its parent-path resolver (src/src/ntfs/mft.rs), the USN journal parser  *)
(* (usn_journal.rs), the I30 parser (i30.rs) and the SDS parser (sds.rs).  *)
(*                                                                         *)
(* Representation.                                                         *)
(*  - A buffer (Vec<u8>) is a record [len, bytes]: bytes maps the offsets   *)
(*    (0-based) that were written when the buffer was built to their byte;  *)
(*    every other offset below len holds 0.                                 *)
(*  - TLC's integers are 32-bit, so a u64 (and a u32 that is compared, not  *)
(*    added) is kept as its little-endian byte tuple, a "word"; arithmetic  *)
(*    on words is done byte by byte (wrapping at the word's width).         *)
(*  - A String is the tuple of its code points; Option<T> is <<>> (None)    *)
(*    or <<v>> (Some(v)).                                                   *)
(*  - An unwrap() on a failed read, and in a debug build an arithmetic      *)
(*    overflow, is a panic: the parser's result becomes "panic".            *)
(***************************************************************************)
EXTENDS Integers, Sequences, FiniteSets, TLC

VARIABLES
    kind,        \* which parser or function this run is of: "mft", "usn", "i30",
                 \* "sds", "boot", "detect", "reason", "time"
    build,       \* "debug" (overflow checks on) or "release" (wrapping arithmetic)
    data,        \* the parser's input buffer (self.data)
    pc,          \* position in parse()
    result,      \* "none" while running, then "Ok", "Err" or "panic"
    offset,      \* MftParser::parse: offset; UsnJournalParser::parse: offset
    pos,         \* the Cursor's position
    record,      \* the MftRecord under construction in parse_record
    records,     \* MftParser.records
    entry_map,   \* MftParser.entry_map
    i,           \* resolve_parent_paths: the loop index
    path_entry,  \* build_path: entry_number, the argument of the innermost call
    frames,      \* build_path: the file names its pending calls will append
    last_length, \* attr_length of the attribute the walk handled last in this slot
    calls,       \* per record index, how often build_path was entered for it
    entries,     \* UsnJournalParser.entries / I30Parser.entries
    descriptors, \* SdsParser.descriptors
    starts,      \* start positions of the emitted entries / descriptors
    filetime,    \* the FILETIME a conversion is applied to
    converted,   \* the conversions' results
    error,       \* the ParseError parse returned, if any
    boot_sector, \* the BootSector BootParser::parse returned, if any
    file_type,   \* the FileType detect_file_type returned, if any
    usn_reason,  \* the reason word format_usn_reason is applied to, and its result
    seen         \* what the caller read through the accessor after each parse() so far

vars == << kind, build, data, pc, result, offset, pos, record, records, entry_map,
           i, path_entry, frames, last_length, calls, entries, descriptors, starts, filetime, converted,
           error, boot_sector, file_type, usn_reason, seen >>

-----------------------------------------------------------------------------
(* Option<T> *)

None == << >>

Some(v) == << v >>

-----------------------------------------------------------------------------
(* Vec<T> *)

\* the element put in front
push_Front(v, x) == << x >> \o v

\* Vec::push
push(v, x) == Append(v, x)

-----------------------------------------------------------------------------
(* Buffers and little-endian reads (byteorder::ReadBytesExt on a Cursor) *)

Byte(d, p) == IF p \in DOMAIN d.bytes THEN d.bytes[p] ELSE 0

\* the n bytes at p..p+n-1, least significant first
Word(d, p, n) == [k \in 1..n |-> Byte(d, p + k - 1)] \o << >>

\* the value of a word of at most 4 bytes whose value is below 2^31
Val(w) ==
    LET n == Len(w)
        V[k \in 0..n] == IF k = 0 THEN 0 ELSE w[n - k + 1] + 256 * V[k - 1]
    IN  V[n]

U8(d, p) == Byte(d, p)

U16(d, p) == Val(Word(d, p, 2))

U32(d, p) == Val(Word(d, p, 4))

-----------------------------------------------------------------------------
(* Arithmetic on words *)

Zero8 == <<0, 0, 0, 0, 0, 0, 0, 0>>

\* -1, 0, 1 as a < b, a = b, a > b (unsigned, equal lengths)
Cmp(a, b) ==
    LET n == Len(a)
        C[k \in 0..n] ==
            IF k = 0 THEN 0
            ELSE LET higher == C[k - 1]
                     j == n - k + 1
                 IN  IF higher # 0 THEN higher
                     ELSE IF a[j] < b[j] THEN -1 ELSE IF a[j] > b[j] THEN 1 ELSE 0
    IN  C[n]

\* a - b modulo 2^(8 * Len(a)): u64::wrapping_sub
WrappingSub(a, b) ==
    LET Borrow[k \in 0..Len(a)] ==
            IF k = 0 THEN 0
            ELSE IF a[k] - b[k] - Borrow[k - 1] < 0 THEN 1 ELSE 0
    IN  [k \in 1..Len(a) |-> (a[k] - b[k] - Borrow[k - 1] + 256) % 256] \o << >>

\* the remainders of the long division of w by d (d <= 10000), most significant
\* byte first: R[k] is the remainder once bytes Len(w) .. k are consumed
DivRem(w, d) ==
    LET n == Len(w)
        R[k \in 1..n + 1] == IF k = n + 1 THEN 0 ELSE (R[k + 1] * 256 + w[k]) % d
    IN  R

\* w / d and w % d for d <= 10000
DivSmall(w, d) ==
    LET R == DivRem(w, d)
    IN  [q |-> [k \in 1..Len(w) |-> (R[k + 1] * 256 + w[k]) \div d] \o << >>, r |-> R[1]]

\* w / 10_000_000 and w % 10_000_000, in two steps that fit 32-bit arithmetic:
\* w / 10^7 = (w / 10^4) / 10^3 and w % 10^7 = ((w / 10^4) % 10^3) * 10^4 + w % 10^4
DivTenMillion(w) ==
    LET a == DivSmall(w, 10000)
        b == DivSmall(a.q, 1000)
    IN  [q |-> b.q, r |-> b.r * 10000 + a.r]


-----------------------------------------------------------------------------
(* FILETIME -> DateTime<Utc>.  A DateTime is [secs, nanos]: secs the i64 Unix *)
(* seconds as an 8-byte two's-complement word, nanos below 10^9.             *)

\* seconds between 1601 and 1970: 11644473600 = 0x2B6109100
FILETIME_UNIX_DIFF == <<0, 145, 16, 182, 2, 0, 0, 0>>

\* the largest and the smallest second chrono's DateTime<Utc> represents:
\* 8210266876799 (+262142-12-31T23:59:59) and -8334601228800 (-262143-01-01T00:00:00)
CHRONO_MAX_SECS == <<127, 107, 10, 154, 119, 7, 0, 0>>

CHRONO_MIN_SECS == <<0, 238, 13, 115, 107, 248, 255, 255>>

\* DateTime::<Utc>::from_timestamp(secs, nanos): None when out of range
from_timestamp(secs, nanos) ==
    IF /\ nanos < 1000000000
       /\ IF secs[8] < 128 THEN Cmp(secs, CHRONO_MAX_SECS) <= 0
                           ELSE Cmp(secs, CHRONO_MIN_SECS) >= 0
    THEN Some([secs |-> secs, nanos |-> nanos])
    ELSE None

\* DateTime::<Utc>::from_timestamp(0, 0).unwrap(): 1970-01-01 00:00:00
UnixEpoch == [secs |-> Zero8, nanos |-> 0]

unwrap_or_epoch(opt) == IF opt = None THEN UnixEpoch ELSE opt[1]

\* the remainder taken for nanoseconds as it is
FiletimeNanos_Unscaled(rem) == rem

\* ((filetime % 10_000_000) * 100) as u32, of the remainder (below 10^7)
FiletimeNanos(rem) == rem * 100

\* mft.rs: windows_filetime_to_datetime
windows_filetime_to_datetime(ft) ==
    IF ft = Zero8 THEN UnixEpoch
    ELSE LET d == DivTenMillion(ft)
             seconds == d.q
         IN  IF Cmp(seconds, FILETIME_UNIX_DIFF) < 0 THEN UnixEpoch
             ELSE LET unix_seconds == WrappingSub(seconds, FILETIME_UNIX_DIFF)
                      nanos == FiletimeNanos(d.r)
                  IN  unwrap_or_epoch(from_timestamp(unix_seconds, nanos))

\* usn_journal.rs: windows_filetime_to_datetime.  The subtraction is unchecked:
\* when filetime / 10^7 is below the difference it overflows, which panics in a
\* build with overflow checks and wraps in one without.
usn_windows_filetime_to_datetime(ft, b) ==
    LET d == DivTenMillion(ft)
        overflow == Cmp(d.q, FILETIME_UNIX_DIFF) < 0
        seconds == WrappingSub(d.q, FILETIME_UNIX_DIFF)
        nanos == FiletimeNanos(d.r)
    IN  [panic |-> overflow /\ b = "debug",
         value |-> unwrap_or_epoch(from_timestamp(seconds, nanos))]

\* i30.rs: windows_filetime_to_datetime (the same body as the USN parser's)
i30_windows_filetime_to_datetime(ft, b) ==
    LET d == DivTenMillion(ft)
        overflow == Cmp(d.q, FILETIME_UNIX_DIFF) < 0
        seconds == WrappingSub(d.q, FILETIME_UNIX_DIFF)
        nanos == FiletimeNanos(d.r)
    IN  [panic |-> overflow /\ b = "debug",
         value |-> unwrap_or_epoch(from_timestamp(seconds, nanos))]

-----------------------------------------------------------------------------
(* UTF-16LE -> String *)

\* "INVALID_NAME"
INVALID_NAME == <<73, 78, 86, 65, 76, 73, 68, 95, 78, 65, 77, 69>>

\* bytes.chunks_exact(2).map(u16::from_le_bytes): a trailing odd byte is dropped
utf16_units(bytes) ==
    [k \in 1..(Len(bytes) \div 2) |-> bytes[2 * k - 1] + 256 * bytes[2 * k]] \o << >>

IsHighSurrogate(u) == u >= 55296 /\ u <= 56319

IsLowSurrogate(u) == u >= 56320 /\ u <= 57343

\* String::from_utf16: [ok, s]; not ok on an unpaired surrogate
from_utf16(units) ==
    LET n == Len(units)
        D[k \in 1..n + 1] ==
            IF k = n + 1 THEN [ok |-> TRUE, s |-> << >>]
            ELSE IF IsHighSurrogate(units[k])
            THEN IF k + 1 <= n /\ IsLowSurrogate(units[k + 1])
                 THEN LET rest == D[k + 2]
                      IN  IF rest.ok
                          THEN [ok |-> TRUE,
                                s |-> << 65536 + (units[k] - 55296) * 1024
                                               + (units[k + 1] - 56320) >> \o rest.s]
                          ELSE [ok |-> FALSE, s |-> << >>]
                 ELSE [ok |-> FALSE, s |-> << >>]
            ELSE IF IsLowSurrogate(units[k]) THEN [ok |-> FALSE, s |-> << >>]
            ELSE LET rest == D[k + 1]
                 IN  IF rest.ok THEN [ok |-> TRUE, s |-> << units[k] >> \o rest.s]
                     ELSE [ok |-> FALSE, s |-> << >>]
    IN  D[1]

\* string_from_utf16le(bytes).unwrap_or_else(|_| String::from("INVALID_NAME"))
string_from_utf16le(bytes) ==
    LET r == from_utf16(utf16_units(bytes))
    IN  IF r.ok THEN r.s ELSE INVALID_NAME

\* '.' and '/'
Dot == 46

Slash == 47

\* name.rfind('.'): the 1-based index of the last '.', 0 when there is none
rfind_dot(name) ==
    LET n == Len(name)
        F[k \in 0..n] == IF k = 0 THEN 0 ELSE IF name[k] = Dot THEN k ELSE F[k - 1]
    IN  F[n]

\* if let Some(dot_pos) = name.rfind('.') { name[dot_pos + 1..] } else { old }
extension_of(name, old) ==
    LET dot_pos == rfind_dot(name)
    IN  IF dot_pos = 0 THEN old ELSE SubSeq(name, dot_pos + 1, Len(name))

-----------------------------------------------------------------------------
(* MftParser (mft.rs) *)

MFT_RECORD_SIZE == 1024

\* 0x454c4946, "FILE", as the bytes read
MFT_SIGNATURE == <<70, 73, 76, 69>>

\* 0xFFFFFFFF, the end of the attributes
END_OF_ATTRIBUTES == <<255, 255, 255, 255>>

ATTR_STANDARD_INFORMATION == <<16, 0, 0, 0>>

ATTR_FILE_NAME == <<48, 0, 0, 0>>

ATTR_DATA == <<128, 0, 0, 0>>

\* a plausible slip: a record begun as a child of the root directory
NewRecord_UnderRoot(entry_number, sequence_number, in_use, is_directory) ==
    [entry_number |-> entry_number,
     sequence_number |-> sequence_number,
     parent_entry_number |-> 5,
     parent_sequence_number |-> << >>,
     in_use |-> in_use,
     parent_path |-> << >>,
     file_name |-> << >>,
     extension |-> << >>,
     is_directory |-> is_directory,
     file_size |-> <<0, 0, 0, 0, 0, 0, 0, 0>>,
     created_0x10 |-> << >>,
     created_0x30 |-> << >>,
     last_modified_0x10 |-> << >>,
     last_modified_0x30 |-> << >>,
     last_record_change_0x10 |-> << >>,
     last_record_change_0x30 |-> << >>,
     last_access_0x10 |-> << >>,
     last_access_0x30 |-> << >>,
     si_flags |-> <<0, 0, 0, 0>>,
     name_type |-> 0]

\* the MftRecord parse_record creates (the fields no code path ever changes,
\* has_ads, is_ads, security_id and the like, are left out)
NewRecord(entry_number, sequence_number, in_use, is_directory) ==
    [entry_number |-> entry_number,
     sequence_number |-> sequence_number,
     parent_entry_number |-> 0,
     parent_sequence_number |-> None,
     in_use |-> in_use,
     parent_path |-> << >>,
     file_name |-> << >>,
     extension |-> << >>,
     is_directory |-> is_directory,
     file_size |-> Zero8,
     created_0x10 |-> None,
     created_0x30 |-> None,
     last_modified_0x10 |-> None,
     last_modified_0x30 |-> None,
     last_record_change_0x10 |-> None,
     last_record_change_0x30 |-> None,
     last_access_0x10 |-> None,
     last_access_0x30 |-> None,
     si_flags |-> <<0, 0, 0, 0>>,
     name_type |-> 0]

\* the value of `record` while no slot is being parsed
NoRecord == NewRecord(0, 0, FALSE, FALSE)

\* a plausible slip: the slot index counted from 1
EntryNumberOf_OneBased(off) == off \div MFT_RECORD_SIZE + 1

\* (offset / MFT_RECORD_SIZE) as u32
EntryNumberOf(off) == off \div MFT_RECORD_SIZE

\* The cursor of parse_record reads the slice data[offset..offset + 1024]: c is
\* a position in the slice.  A read of n bytes at c succeeds iff it fits.
Fits(c, n) == c + n <= MFT_RECORD_SIZE

\* parse_standard_info with the cursor at c: the record, or a panic (an unwrap
\* of a read past the end of the slot)
parse_standard_info(d, base, c, rec) ==
    IF ~Fits(c, 44) THEN [panic |-> TRUE, record |-> rec]
    ELSE [panic |-> FALSE,
          record |-> [rec EXCEPT
              !.created_0x10 = Some(windows_filetime_to_datetime(Word(d, base + c + 8, 8))),
              !.last_modified_0x10 = Some(windows_filetime_to_datetime(Word(d, base + c + 16, 8))),
              !.last_record_change_0x10 = Some(windows_filetime_to_datetime(Word(d, base + c + 24, 8))),
              !.last_access_0x10 = Some(windows_filetime_to_datetime(Word(d, base + c + 32, 8))),
              !.si_flags = Word(d, base + c + 40, 4)]]

\* a plausible slip: a name once set is kept
AssignFileName_KeepFirst(rec, name) == IF rec.file_name = << >> THEN name ELSE rec.file_name

\* record.file_name = name.clone()
AssignFileName(rec, name) == name

\* parse_file_name with the cursor at c
parse_file_name(d, base, c, rec) ==
    IF ~Fits(c, 74) THEN [panic |-> TRUE, record |-> rec]
    ELSE LET parent_reference == Word(d, base + c + 8, 8)
             name_length == U8(d, base + c + 72)
             name == string_from_utf16le(Word(d, base + c + 74, 2 * name_length))
         IN  IF ~Fits(c + 74, 2 * name_length) THEN [panic |-> TRUE, record |-> rec]
             ELSE [panic |-> FALSE,
                   record |-> [rec EXCEPT
                       !.parent_entry_number = Val(SubSeq(parent_reference, 1, 4)),
                       !.parent_sequence_number = Some(Val(SubSeq(parent_reference, 7, 8))),
                       !.created_0x30 = Some(windows_filetime_to_datetime(Word(d, base + c + 16, 8))),
                       !.last_modified_0x30 = Some(windows_filetime_to_datetime(Word(d, base + c + 24, 8))),
                       !.last_record_change_0x30 = Some(windows_filetime_to_datetime(Word(d, base + c + 32, 8))),
                       !.last_access_0x30 = Some(windows_filetime_to_datetime(Word(d, base + c + 40, 8))),
                       !.file_size = Word(d, base + c + 56, 8),
                       !.name_type = U8(d, base + c + 73),
                       !.file_name = AssignFileName(rec, name),
                       !.extension = extension_of(name, rec.extension)]]

\* parse_data_attribute: nothing is read
parse_data_attribute(d, base, c, rec) == [panic |-> FALSE, record |-> rec]

\* the match on attr_type in parse_attributes, the cursor at c behind the header
parse_attribute_body(attr_type, d, base, c, rec) ==
    IF attr_type = ATTR_STANDARD_INFORMATION THEN parse_standard_info(d, base, c, rec)
    ELSE IF attr_type = ATTR_FILE_NAME THEN parse_file_name(d, base, c, rec)
    ELSE IF attr_type = ATTR_DATA THEN parse_data_attribute(d, base, c, rec)
    ELSE [panic |-> FALSE, record |-> rec]

\* whether the attribute walk leaves its loop at cursor position p: fewer than
\* 4 bytes are left, or the type read is the end marker
WalkEnds(d, base, p) ==
    \/ p + 4 > MFT_RECORD_SIZE
    \/ Word(d, base + p, 4) = END_OF_ATTRIBUTES

\* HashMap::insert
MapInsert(m, k, v) == [x \in DOMAIN m \cup {k} |-> IF x = k THEN v ELSE m[x]]

EmptyMap == [x \in {} |-> 0]

\* the root directory's entry number
ROOT_ENTRY == 5

\* build_path's recursion limit
MAX_DEPTH == 100

\* "...[path too deep]"
PATH_TOO_DEEP ==
    <<46, 46, 46, 91, 112, 97, 116, 104, 32, 116, 111, 111, 32, 100, 101, 101, 112, 93>>

\* "...[parent not found]"
PARENT_NOT_FOUND ==
    <<46, 46, 46, 91, 112, 97, 114, 101, 110, 116, 32, 110, 111, 116, 32,
      102, 111, 117, 110, 100, 93>>

\* "...[invalid index]"
INVALID_INDEX ==
    <<46, 46, 46, 91, 105, 110, 118, 97, 108, 105, 100, 32, 105, 110, 100, 101, 120, 93>>

\* a plausible slip: the limit checked one level late
TooDeep_OneLate(depth) == depth > MAX_DEPTH + 1

\* the depth at which build_path gives up
TooDeep(depth) == depth > MAX_DEPTH

\* a plausible slip: the separator written also behind an empty prefix
JoinPath_AlwaysSlash(parent_path, file_name) == parent_path \o << Slash >> \o file_name

\* a plausible slip: the name written before the prefix
JoinPath_Reversed(parent_path, file_name) ==
    IF parent_path = << >> THEN file_name
    ELSE file_name \o << Slash >> \o parent_path

\* format!("{}/{}", parent_path, file_name), or file_name alone
JoinPath(parent_path, file_name) ==
    IF parent_path = << >> THEN file_name
    ELSE parent_path \o << Slash >> \o file_name

\* whether resolve_parent_paths calls build_path for rec, without the test
\* for a record that is its own parent
ResolverRecurses_NoSelfTest(rec) == rec.parent_entry_number # ROOT_ENTRY

\* whether resolve_parent_paths calls build_path for rec
ResolverRecurses(rec) ==
    rec.parent_entry_number # ROOT_ENTRY /\ rec.parent_entry_number # rec.entry_number

RECURSIVE Unwind(_, _)
\* The value the outermost call of build_path returns when the innermost one
\* returns path: each pending call, the innermost (the last of names) first,
\* joins its record's file name to what the call below it returned.
Unwind(path, names) ==
    IF Len(names) = 0 THEN path
    ELSE IF Len(names) = 1 THEN JoinPath(path, names[1])
    ELSE LET half == Len(names) \div 2
             inner == Unwind(path, SubSeq(names, half + 1, Len(names)))
         IN  IF inner = << >> THEN Unwind(<< >>, SubSeq(names, 1, half))
             ELSE Unwind(inner, SubSeq(names, 1, half))

mftUnused == << entries, descriptors, starts, filetime, converted, error, boot_sector,
               file_type, usn_reason, seen >>

walk == << path_entry, frames >>

\* a plausible slip: the index taken after the push
RecordIndex_AfterPush(recs) == Len(recs) + 1

\* let record_index = self.records.len()
RecordIndex(recs) == Len(recs)

\* parse, one pass of the while loop on a slot that parse_record rejects or
\* starts to decode (the header, then the seek to the first attribute)
MftParseRecord ==
    /\ kind = "mft" /\ pc = "slot"
    /\ offset + MFT_RECORD_SIZE <= data.len
    /\ IF Word(data, offset, 4) # MFT_SIGNATURE
       THEN /\ offset' = offset + MFT_RECORD_SIZE
            /\ UNCHANGED << pc, pos, record, last_length >>
       ELSE LET flags == U16(data, offset + 22)
            IN  /\ record' = NewRecord(EntryNumberOf(offset), U16(data, offset + 16),
                                       flags % 2 = 1, (flags \div 2) % 2 = 1)
                /\ pos' = U16(data, offset + 20)
                /\ pc' = "attrs"
                /\ last_length' = -1
                /\ UNCHANGED offset
    /\ UNCHANGED << kind, build, data, result, records, entry_map, i, calls >>
    /\ UNCHANGED walk
    /\ UNCHANGED mftUnused

\* parse_attributes, one pass of its loop; when the loop ends parse_record
\* returns the record and parse pushes it and moves to the next slot
MftParseAttribute ==
    /\ kind = "mft" /\ pc = "attrs"
    /\ IF WalkEnds(data, offset, pos)
       THEN /\ records' = push(records, record)
            /\ entry_map' = MapInsert(entry_map, record.entry_number, RecordIndex(records))
            /\ offset' = offset + MFT_RECORD_SIZE
            /\ pc' = "slot"
            /\ record' = NoRecord
            /\ pos' = 0
            /\ last_length' = -1
            /\ UNCHANGED result
       ELSE IF ~Fits(pos, 16)
       THEN /\ pc' = "panic" /\ result' = "panic"
            /\ UNCHANGED << records, entry_map, offset, record, pos, last_length >>
       ELSE LET attr_type == Word(data, offset + pos, 4)
                attr_length == U32(data, offset + pos + 4)
                r == parse_attribute_body(attr_type, data, offset, pos + 16, record)
            IN  IF r.panic
                THEN /\ pc' = "panic" /\ result' = "panic"
                     /\ UNCHANGED << records, entry_map, offset, record, pos, last_length >>
                ELSE /\ record' = r.record
                     /\ pos' = pos + attr_length
                     /\ last_length' = attr_length
                     /\ UNCHANGED << records, entry_map, offset, pc, result >>
    /\ UNCHANGED << kind, build, data, i, calls >>
    /\ UNCHANGED walk
    /\ UNCHANGED mftUnused

\* parse: the while loop ends and resolve_parent_paths begins
MftStartResolve ==
    /\ kind = "mft" /\ pc = "slot"
    /\ ~(offset + MFT_RECORD_SIZE <= data.len)
    /\ pc' = "resolve"
    /\ i' = 0
    /\ UNCHANGED << kind, build, data, result, offset, pos, record, records, entry_map,
                    last_length, calls >>
    /\ UNCHANGED walk
    /\ UNCHANGED mftUnused

\* the assignment with the path stored as the record's file_name as well
set_parent_path_AndName(recs, index, path) ==
    [recs EXCEPT ![index + 1].parent_path = path, ![index + 1].file_name = path]

\* self.records[i].parent_path = path
set_parent_path(recs, index, path) == [recs EXCEPT ![index + 1].parent_path = path]

\* resolve_parent_paths: one pass of the for loop, up to the call of
\* build_path if the record needs one
MftResolve ==
    /\ kind = "mft" /\ pc = "resolve"
    /\ i < Len(records)
    /\ IF ResolverRecurses(records[i + 1])
       THEN /\ pc' = "build"
            /\ path_entry' = records[i + 1].parent_entry_number
            /\ frames' = << >>
            /\ UNCHANGED << records, calls, i >>
       ELSE /\ records' = IF records[i + 1].parent_entry_number = ROOT_ENTRY
                          THEN set_parent_path(records, i, << >>)
                          ELSE records
            /\ calls' = Append(calls, 0)
            /\ i' = i + 1
            /\ UNCHANGED << pc, path_entry, frames >>
    /\ UNCHANGED << kind, build, data, result, offset, pos, record, entry_map,
                    last_length >>
    /\ UNCHANGED mftUnused

\* a plausible slip: the strings of the two else branches exchanged
build_path_base_SentinelsExchanged(recs, entry, em, depth) ==
    IF TooDeep(depth) THEN Some(PATH_TOO_DEEP)
    ELSE IF entry = ROOT_ENTRY THEN Some(<< >>)
    ELSE IF entry \in DOMAIN em
    THEN LET record_index == em[entry]
         IN  IF record_index < Len(recs)
             THEN LET rec == recs[record_index + 1]
                  IN  IF rec.parent_entry_number = ROOT_ENTRY
                      THEN Some(JoinPath(<< >>, rec.file_name))
                      ELSE None
             ELSE Some(PARENT_NOT_FOUND)
    ELSE Some(INVALID_INDEX)

\* What a call build_path(entry_number, entry_map, depth) returns without
\* calling itself, or None when it calls itself for the record's parent.
build_path_base(recs, entry, em, depth) ==
    IF TooDeep(depth) THEN Some(PATH_TOO_DEEP)
    ELSE IF entry = ROOT_ENTRY THEN Some(<< >>)
    ELSE IF entry \in DOMAIN em
    THEN LET record_index == em[entry]
         IN  IF record_index < Len(recs)
             THEN LET rec == recs[record_index + 1]
                  IN  IF rec.parent_entry_number = ROOT_ENTRY
                      THEN Some(JoinPath(<< >>, rec.file_name))
                      ELSE None
             ELSE Some(INVALID_INDEX)
    ELSE Some(PARENT_NOT_FOUND)

\* build_path, one call at depth Len(frames): it returns, and with it all the
\* pending calls, the outermost one into resolve_parent_paths, which stores the
\* path; or it calls itself for the parent of the record it found.
build_path ==
    /\ kind = "mft" /\ pc = "build"
    /\ LET base == build_path_base(records, path_entry, entry_map, Len(frames))
       IN  IF base # None
           THEN /\ records' = set_parent_path(records, i, Unwind(base[1], frames))
                /\ calls' = Append(calls, Len(frames) + 1)
                /\ i' = i + 1
                /\ pc' = "resolve"
                /\ path_entry' = 0
                /\ frames' = << >>
           ELSE LET rec == records[entry_map[path_entry] + 1]
                IN  /\ frames' = Append(frames, rec.file_name)
                    /\ path_entry' = rec.parent_entry_number
                    /\ UNCHANGED << records, calls, i, pc >>
    /\ UNCHANGED << kind, build, data, result, offset, pos, record, entry_map,
                    last_length >>
    /\ UNCHANGED mftUnused

\* parse returns Ok(())
MftFinish ==
    /\ kind = "mft" /\ pc = "resolve"
    /\ i = Len(records)
    /\ pc' = "done"
    /\ result' = "Ok"
    /\ UNCHANGED << kind, build, data, offset, pos, record, records, entry_map, i,
                    last_length, calls >>
    /\ UNCHANGED walk
    /\ UNCHANGED mftUnused

NextMft ==
    \/ MftParseRecord \/ MftParseAttribute \/ MftStartResolve
    \/ MftResolve \/ build_path \/ MftFinish

-----------------------------------------------------------------------------
(* UsnJournalParser (usn_journal.rs) *)

\* whether n bytes can be read at position p of the buffer
Has(d, p, n) == p + n <= d.len

\* 2^30: a u32 length read from the input is kept exactly below this value; a
\* larger one, which points past the end of every buffer tried, is kept as this
FAR == 1073741824

\* a u32 read as a length or an offset to add to the cursor
Length32(d, p) == IF Byte(d, p + 3) >= 64 THEN FAR ELSE U32(d, p)

\* (file_reference & 0xFFFFFFFFFFFF) as u32: the low four bytes
EntryNumber(file_reference) == SubSeq(file_reference, 1, 4)

\* (file_reference >> 48) as u16
SequenceNumber(file_reference) == Val(SubSeq(file_reference, 7, 8))

\* bit k of a little-endian word
Bit(w, k) == (w[k \div 8 + 1] \div (2 ^ (k % 8))) % 2

\* the flags format_usn_reason tests, in its order, each with its bit number
USN_REASONS ==
    << [bit |-> 0, name |-> "DATA_OVERWRITE"], [bit |-> 1, name |-> "DATA_EXTEND"],
       [bit |-> 2, name |-> "DATA_TRUNCATION"], [bit |-> 4, name |-> "NAMED_DATA_OVERWRITE"],
       [bit |-> 5, name |-> "NAMED_DATA_EXTEND"], [bit |-> 6, name |-> "NAMED_DATA_TRUNCATION"],
       [bit |-> 8, name |-> "FILE_CREATE"], [bit |-> 9, name |-> "FILE_DELETE"],
       [bit |-> 10, name |-> "EA_CHANGE"], [bit |-> 11, name |-> "SECURITY_CHANGE"],
       [bit |-> 12, name |-> "RENAME_OLD_NAME"], [bit |-> 13, name |-> "RENAME_NEW_NAME"],
       [bit |-> 14, name |-> "INDEXABLE_CHANGE"], [bit |-> 15, name |-> "BASIC_INFO_CHANGE"],
       [bit |-> 16, name |-> "HARD_LINK_CHANGE"], [bit |-> 17, name |-> "COMPRESSION_CHANGE"],
       [bit |-> 18, name |-> "ENCRYPTION_CHANGE"], [bit |-> 19, name |-> "OBJECT_ID_CHANGE"],
       [bit |-> 20, name |-> "REPARSE_POINT_CHANGE"], [bit |-> 21, name |-> "STREAM_CHANGE"],
       [bit |-> 31, name |-> "CLOSE"] >>

HEX_DIGITS == << "0", "1", "2", "3", "4", "5", "6", "7", "8", "9", "a", "b", "c", "d", "e", "f" >>

\* the eight digits with the bytes in the order they are stored
Hex08_StoredOrder(w) ==
    [j \in 1..8 |->
        LET byte == w[(j - 1) \div 2 + 1]
        IN  HEX_DIGITS[(IF j % 2 = 1 THEN byte \div 16 ELSE byte % 16) + 1]] \o << >>

\* format!("{:08x}", w) of a u32 word, one digit a piece
Hex08(w) ==
    [j \in 1..8 |->
        LET byte == w[(8 - j) \div 2 + 1]
        IN  HEX_DIGITS[(IF j % 2 = 1 THEN byte \div 16 ELSE byte % 16) + 1]] \o << >>

\* reasons.join(" | "), the pieces of the string in a sequence
JoinReasons(names) ==
    [k \in 1..(2 * Len(names) - 1) |-> IF k % 2 = 1 THEN names[(k + 1) \div 2] ELSE " | "] \o << >>

\* format_usn_reason; a String is given as the sequence of its pieces
format_usn_reason(reason) ==
    LET set == SelectSeq(USN_REASONS, LAMBDA e : Bit(reason, e.bit) = 1)
        reasons == [k \in 1..Len(set) |-> set[k].name] \o << >>
    IN  IF reasons = << >> THEN << "UNKNOWN(0x" >> \o Hex08(reason) \o << ")" >>
        ELSE JoinReasons(reasons)

\* if let Some(dot_pos) = file_name.rfind('.') { file_name[dot_pos + 1..] } else { "" }
usn_extension(file_name) == extension_of(file_name, << >>)

\* the fixed part of a USN record, which parse_entry wants to lie in the buffer
USN_HEADER_SIZE == 60

\* the same test with the 4 bytes of record_length in place of the header
UsnTooShort_LengthOnly(d, start_pos) == start_pos + 4 > d.len

\* start_pos + 60 > self.data.len()
UsnTooShort(d, start_pos) == start_pos + USN_HEADER_SIZE > d.len

\* parse_entry with the cursor at start_pos: outcome "none" for Ok(None),
\* "some" for Ok(Some(entry)) with the cursor then at next, "panic" for a failed
\* unwrap or an overflow in a build that checks for it.  The one `?` of the
\* function follows the test for 60 bytes and cannot fail.
usn_parse_entry(d, start_pos, b) ==
    IF UsnTooShort(d, start_pos) THEN [outcome |-> "none"]
    ELSE LET record_length == Length32(d, start_pos)
             file_reference == Word(d, start_pos + 8, 8)
             parent_file_reference == Word(d, start_pos + 16, 8)
             timestamp == Word(d, start_pos + 32, 8)
             file_name_length == U16(d, start_pos + 56)
             file_name_offset == U16(d, start_pos + 58)
             name_at == start_pos + file_name_offset
             file_name == string_from_utf16le(Word(d, name_at, file_name_length))
             datetime == usn_windows_filetime_to_datetime(timestamp, b)
         IN  IF record_length = 0 THEN [outcome |-> "none"]
             ELSE IF file_name_length > 0 /\ ~Has(d, name_at, file_name_length)
             THEN [outcome |-> "panic"]
             ELSE IF datetime.panic THEN [outcome |-> "panic"]
             ELSE [outcome |-> "some",
                   next |-> start_pos + record_length,
                   entry |-> [offset |-> record_length,
                              timestamp |-> datetime.value,
                              entry_number |-> EntryNumber(file_reference),
                              sequence_number |-> SequenceNumber(file_reference),
                              parent_entry_number |-> EntryNumber(parent_file_reference),
                              parent_sequence_number |-> SequenceNumber(parent_file_reference),
                              file_name |-> file_name,
                              full_path |-> << >>,
                              extension |-> usn_extension(file_name),
                              reason |-> format_usn_reason(Word(d, start_pos + 40, 4)),
                              file_attributes |-> Word(d, start_pos + 52, 4),
                              usn |-> Word(d, start_pos + 24, 8)]]

usnUnused == << record, records, entry_map, i, path_entry, frames, last_length, calls,
                descriptors, filetime, converted, error, boot_sector, file_type, usn_reason, seen >>

\* UsnJournalParser::parse, one pass of the while loop
UsnParseEntry ==
    /\ kind = "usn" /\ pc = "loop"
    /\ pos < data.len
    /\ LET r == usn_parse_entry(data, pos, build)
       IN  IF r.outcome = "some"
           THEN /\ offset' = offset + r.entry.offset
                /\ entries' = push(entries, r.entry)
                /\ starts' = Append(starts, pos)
                /\ pos' = r.next
                /\ UNCHANGED << pc, result >>
           ELSE IF r.outcome = "none"
           THEN /\ pc' = "done" /\ result' = "Ok"
                /\ UNCHANGED << offset, entries, starts, pos >>
           ELSE /\ pc' = "panic" /\ result' = "panic"
                /\ UNCHANGED << offset, entries, starts, pos >>
    /\ UNCHANGED << kind, build, data >>
    /\ UNCHANGED usnUnused

\* UsnJournalParser::parse: the cursor is at or past the end, parse returns Ok(())
UsnFinish ==
    /\ kind = "usn" /\ pc = "loop"
    /\ ~(pos < data.len)
    /\ pc' = "done" /\ result' = "Ok"
    /\ UNCHANGED << kind, build, data, offset, entries, starts, pos >>
    /\ UNCHANGED usnUnused

NextUsn == UsnParseEntry \/ UsnFinish

-----------------------------------------------------------------------------
(* I30Parser (i30.rs) *)

\* the signature of an MFT record in its place
INDX_SIGNATURE_OfFile == <<70, 73, 76, 69>>

\* 0x58444e49, "INDX", as the bytes read
INDX_SIGNATURE == <<73, 78, 68, 88>>

\* the bytes parse reads before the entries: the INDX header and the index header
INDX_HEADER_SIZE == 40

\* The start of parse up to the jump to the entries: "err" when the signature
\* cannot be read or is not "INDX", "panic" when an unwrap on a header field
\* fails, else "ok" with the cursor at next.
i30_parse_header(d) ==
    IF ~Has(d, 0, 4)
    THEN [outcome |-> "err",
          error |-> [message |-> "Failed to read INDX signature", offset |-> Some(0)]]
    ELSE IF Word(d, 0, 4) # INDX_SIGNATURE
    THEN [outcome |-> "err",
          error |-> [message |-> "Invalid INDX signature", offset |-> Some(0)]]
    ELSE IF ~Has(d, 0, INDX_HEADER_SIZE) THEN [outcome |-> "panic"]
    ELSE [outcome |-> "ok", next |-> 24 + Length32(d, 24)]

\* the test with the flags left out
IsEndEntry_LengthOnly(entry_length, flags) == entry_length = 0

\* entry_length == 0 || (flags & 0x02) != 0
IsEndEntry(entry_length, flags) == entry_length = 0 \/ Bit(flags, 1) = 1

\* parse_entry with the cursor at start_pos: "none" for Ok(None), "err" for
\* Err, "some" for Ok(Some(entry)) with the cursor then at next, "panic" for a
\* failed unwrap or an overflow in a build that checks for it.
i30_parse_entry(d, start_pos, b) ==
    IF start_pos + 16 > d.len THEN [outcome |-> "none"]
    ELSE LET file_reference == Word(d, start_pos, 8)
             entry_length == U16(d, start_pos + 8)
             flags == Word(d, start_pos + 12, 4)
             parent_file_reference == Word(d, start_pos + 16, 8)
             attributes == Word(d, start_pos + 72, 4)
             name_length == U8(d, start_pos + 80)
             file_name == string_from_utf16le(Word(d, start_pos + 82, 2 * name_length))
             created == i30_windows_filetime_to_datetime(Word(d, start_pos + 24, 8), b)
             modified == i30_windows_filetime_to_datetime(Word(d, start_pos + 32, 8), b)
             accessed == i30_windows_filetime_to_datetime(Word(d, start_pos + 48, 8), b)
         IN  IF IsEndEntry(entry_length, flags) THEN [outcome |-> "none"]
             ELSE IF ~Has(d, start_pos, 82) THEN [outcome |-> "panic"]
             ELSE IF name_length > 0 /\ ~Has(d, start_pos + 82, 2 * name_length)
             THEN [outcome |-> "err"]
             ELSE IF created.panic \/ modified.panic \/ accessed.panic
             THEN [outcome |-> "panic"]
             ELSE [outcome |-> "some",
                   next |-> start_pos + entry_length,
                   entry |-> [entry_number |-> EntryNumber(file_reference),
                              sequence_number |-> SequenceNumber(file_reference),
                              parent_entry_number |-> EntryNumber(parent_file_reference),
                              parent_sequence_number |-> SequenceNumber(parent_file_reference),
                              file_name |-> file_name,
                              full_path |-> << >>,
                              file_size |-> Word(d, start_pos + 64, 8),
                              is_directory |-> Bit(attributes, 4) = 1,
                              created |-> created.value,
                              modified |-> modified.value,
                              accessed |-> accessed.value,
                              attributes |-> attributes]]

i30Unused == << offset, record, records, entry_map, i, path_entry, frames, last_length,
                calls, descriptors, filetime, converted, boot_sector, file_type, usn_reason, seen >>

\* I30Parser::parse up to the while loop
I30ParseHeader ==
    /\ kind = "i30" /\ pc = "header"
    /\ LET r == i30_parse_header(data)
       IN  IF r.outcome = "ok"
           THEN /\ pos' = r.next /\ pc' = "loop"
                /\ UNCHANGED << result, error >>
           ELSE IF r.outcome = "err"
           THEN /\ pc' = "done" /\ result' = "Err" /\ error' = Some(r.error)
                /\ UNCHANGED pos
           ELSE /\ pc' = "panic" /\ result' = "panic"
                /\ UNCHANGED << pos, error >>
    /\ UNCHANGED << kind, build, data, entries, starts >>
    /\ UNCHANGED i30Unused

\* I30Parser::parse, one pass of the while loop: an Err of parse_entry is logged
\* and ends the loop like Ok(None)
I30ParseEntry ==
    /\ kind = "i30" /\ pc = "loop"
    /\ pos < data.len
    /\ LET r == i30_parse_entry(data, pos, build)
       IN  IF r.outcome = "some"
           THEN /\ entries' = push(entries, r.entry)
                /\ starts' = Append(starts, pos)
                /\ pos' = r.next
                /\ UNCHANGED << pc, result >>
           ELSE IF r.outcome \in {"none", "err"}
           THEN /\ pc' = "done" /\ result' = "Ok"
                /\ UNCHANGED << entries, starts, pos >>
           ELSE /\ pc' = "panic" /\ result' = "panic"
                /\ UNCHANGED << entries, starts, pos >>
    /\ UNCHANGED << kind, build, data, error >>
    /\ UNCHANGED i30Unused

\* I30Parser::parse: the cursor is at or past the end, parse returns Ok(())
I30Finish ==
    /\ kind = "i30" /\ pc = "loop"
    /\ ~(pos < data.len)
    /\ pc' = "done" /\ result' = "Ok"
    /\ UNCHANGED << kind, build, data, entries, starts, pos, error >>
    /\ UNCHANGED i30Unused

NextI30 == I30ParseHeader \/ I30ParseEntry \/ I30Finish

-----------------------------------------------------------------------------
(* SdsParser (sds.rs) *)

\* 0x10000, the largest descriptor length parse_descriptor accepts
SDS_MAX_LENGTH == 65536

\* a plausible slip: the limit itself refused
SdsBadLength_AtLimit(length) == length = 0 \/ length >= SDS_MAX_LENGTH

\* length == 0 || length > 0x10000
SdsBadLength(length) == length = 0 \/ length > SDS_MAX_LENGTH

\* a plausible slip: the offset field read from the entry (inputs keep it
\* below 2^31)
DescriptorOffset_Stored(start_pos, stored) == Val(SubSeq(stored, 1, 4))

\* offset: start_pos
DescriptorOffset(start_pos, stored) == start_pos

\* parse_descriptor with the cursor at start_pos: "none" for Ok(None), "err"
\* for Err, "some" for Ok(Some(descriptor)) with the cursor then at next.  The
\* unwraps follow the test for 20 bytes and cannot fail.
sds_parse_descriptor(d, start_pos) ==
    IF start_pos + 20 > d.len THEN [outcome |-> "none"]
    ELSE LET hash == Word(d, start_pos, 4)
             id == Word(d, start_pos + 4, 4)
             length == Length32(d, start_pos + 16)
         IN  IF SdsBadLength(length) THEN [outcome |-> "none"]
             ELSE IF ~Has(d, start_pos + 20, length) THEN [outcome |-> "err"]
             ELSE [outcome |-> "some",
                   next |-> start_pos + 20 + length,
                   descriptor |-> [id |-> id,
                                   hash |-> hash,
                                   offset |-> DescriptorOffset(start_pos, Word(d, start_pos + 8, 8)),
                                   length |-> length,
                                   descriptor |-> Word(d, start_pos + 20, length)]]

sdsUnused == << offset, record, records, entry_map, i, path_entry, frames, last_length,
                calls, entries, starts, filetime, converted, error, boot_sector, file_type,
                usn_reason, seen >>

\* SdsParser::parse, one pass of the while loop: an Err of parse_descriptor is
\* logged and ends the loop like Ok(None)
SdsParseDescriptor ==
    /\ kind = "sds" /\ pc = "loop"
    /\ pos < data.len
    /\ LET r == sds_parse_descriptor(data, pos)
       IN  IF r.outcome = "some"
           THEN /\ descriptors' = push(descriptors, r.descriptor)
                /\ pos' = r.next
                /\ UNCHANGED << pc, result >>
           ELSE /\ pc' = "done" /\ result' = "Ok"
                /\ UNCHANGED << descriptors, pos >>
    /\ UNCHANGED << kind, build, data >>
    /\ UNCHANGED sdsUnused

\* SdsParser::parse: the cursor is at or past the end, parse returns Ok(())
SdsFinish ==
    /\ kind = "sds" /\ pc = "loop"
    /\ ~(pos < data.len)
    /\ pc' = "done" /\ result' = "Ok"
    /\ UNCHANGED << kind, build, data, descriptors, pos >>
    /\ UNCHANGED sdsUnused

NextSds == SdsParseDescriptor \/ SdsFinish

-----------------------------------------------------------------------------
(* BootParser (boot.rs) *)

BOOT_SECTOR_SIZE == 512

\* U+FFFD REPLACEMENT CHARACTER
REPLACEMENT == 65533

IsContinuation(b) == b >= 128 /\ b <= 191

\* the range the byte after the lead byte b of a 3- or 4-byte sequence must be in
SecondByteRange(b) ==
    IF b = 224 THEN 160..191
    ELSE IF b = 237 THEN 128..159
    ELSE IF b = 240 THEN 144..191
    ELSE IF b = 244 THEN 128..143
    ELSE 128..191

\* The character at position k of the bytes and the number of bytes it takes:
\* the code point of a well-formed UTF-8 sequence, or U+FFFD for the longest
\* prefix of one that is there (as String::from_utf8_lossy replaces it).
Utf8CharAt(bs, k) ==
    LET b == bs[k]
        b2 == IF k + 1 <= Len(bs) THEN bs[k + 1] ELSE 0
        b3 == IF k + 2 <= Len(bs) THEN bs[k + 2] ELSE 0
        b4 == IF k + 3 <= Len(bs) THEN bs[k + 3] ELSE 0
        bad(n) == [char |-> REPLACEMENT, size |-> n]
    IN  IF b < 128 THEN [char |-> b, size |-> 1]
        ELSE IF b >= 194 /\ b <= 223
        THEN IF IsContinuation(b2)
             THEN [char |-> (b - 192) * 64 + (b2 - 128), size |-> 2]
             ELSE bad(1)
        ELSE IF b >= 224 /\ b <= 239
        THEN IF b2 \notin SecondByteRange(b) THEN bad(1)
             ELSE IF ~IsContinuation(b3) THEN bad(2)
             ELSE [char |-> (b - 224) * 4096 + (b2 - 128) * 64 + (b3 - 128), size |-> 3]
        ELSE IF b >= 240 /\ b <= 244
        THEN IF b2 \notin SecondByteRange(b) THEN bad(1)
             ELSE IF ~IsContinuation(b3) THEN bad(2)
             ELSE IF ~IsContinuation(b4) THEN bad(3)
             ELSE [char |-> (b - 240) * 262144 + (b2 - 128) * 4096 + (b3 - 128) * 64
                                + (b4 - 128),
                   size |-> 4]
        ELSE bad(1)

RECURSIVE Utf8LossyFrom(_, _)
Utf8LossyFrom(bs, k) ==
    IF k > Len(bs) THEN << >>
    ELSE LET c == Utf8CharAt(bs, k)
         IN  << c.char >> \o Utf8LossyFrom(bs, k + c.size)

\* String::from_utf8_lossy(&bytes)
from_utf8_lossy(bs) == Utf8LossyFrom(bs, 1)

RECURSIVE trim_end_nul(_)
\* .trim_end_matches('\0')
trim_end_nul(str) ==
    IF str # << >> /\ str[Len(str)] = 0 THEN trim_end_nul(SubSeq(str, 1, Len(str) - 1))
    ELSE str

\* cursor.read_i8()
I8(d, p) == IF Byte(d, p) >= 128 THEN Byte(d, p) - 256 ELSE Byte(d, p)

\* the test with a sector of exactly 512 bytes refused
BootTooSmall_OffByOne(d) == d.len <= BOOT_SECTOR_SIZE

\* data.len() < 512
BootTooSmall(d) == d.len < BOOT_SECTOR_SIZE

\* BootParser::parse: "err" with the ParseError, or "ok" with the BootSector
\* (every read lies below byte 80, so no unwrap fails)
boot_parse(d) ==
    IF BootTooSmall(d)
    THEN [outcome |-> "err",
          error |-> [message |-> "Boot sector data too small", offset |-> None]]
    ELSE IF ~Has(d, 0, 80) THEN [outcome |-> "panic"]
    ELSE [outcome |-> "ok",
          boot_sector |-> [bytes_per_sector |-> U16(d, 11),
                           sectors_per_cluster |-> U8(d, 13),
                           total_sectors |-> Word(d, 40, 8),
                           mft_start_cluster |-> Word(d, 48, 8),
                           mft_mirror_start_cluster |-> Word(d, 56, 8),
                           clusters_per_mft_record |-> I8(d, 64),
                           clusters_per_index_buffer |-> I8(d, 68),
                           volume_serial_number |-> Word(d, 72, 8),
                           oem_id |-> trim_end_nul(from_utf8_lossy(Word(d, 3, 8))),
                           volume_label |-> << >>]]

bootUnused == << offset, pos, record, records, entry_map, i, path_entry, frames,
                 last_length, calls, entries, descriptors, starts, filetime, converted,
                 file_type, usn_reason, seen >>

\* the call BootParser::parse(data)
BootParse ==
    /\ kind = "boot" /\ pc = "call"
    /\ LET r == boot_parse(data)
       IN  IF r.outcome = "ok"
           THEN /\ pc' = "done" /\ result' = "Ok" /\ boot_sector' = Some(r.boot_sector)
                /\ UNCHANGED error
           ELSE IF r.outcome = "err"
           THEN /\ pc' = "done" /\ result' = "Err" /\ error' = Some(r.error)
                /\ UNCHANGED boot_sector
           ELSE /\ pc' = "panic" /\ result' = "panic"
                /\ UNCHANGED << error, boot_sector >>
    /\ UNCHANGED << kind, build, data >>
    /\ UNCHANGED bootUnused

NextBoot == BootParse

-----------------------------------------------------------------------------
(* detect_file_type (main.rs), from the point where the file is mapped: a file
   that cannot be opened or mapped makes it return the error instead *)

\* 0x454c4946, "FILE"
DETECT_FILE == <<70, 73, 76, 69>>

\* 0x58444e49, "INDX"
DETECT_INDX == <<73, 78, 68, 88>>

\* b"NTFS    "
DETECT_NTFS == <<78, 84, 70, 83, 32, 32, 32, 32>>

\* 0x10000
DETECT_USN_LIMIT == 65536

\* the test with a record_length of 60 let through
LooksLikeUsn_From60(d) ==
    d.len >= 60 /\ Length32(d, 0) >= 60 /\ Length32(d, 0) < DETECT_USN_LIMIT

\* mmap.len() >= 60 && record_length > 60 && record_length < 0x10000
LooksLikeUsn(d) ==
    d.len >= 60 /\ Length32(d, 0) > 60 /\ Length32(d, 0) < DETECT_USN_LIMIT

detect_file_type(d) ==
    IF d.len < 4 THEN "Unknown"
    ELSE IF Word(d, 0, 4) = DETECT_FILE THEN "Mft"
    ELSE IF Word(d, 0, 4) = DETECT_INDX THEN "I30"
    ELSE IF d.len >= 512 /\ Word(d, 3, 8) = DETECT_NTFS THEN "Boot"
    ELSE IF LooksLikeUsn(d) THEN "UsnJournal"
    ELSE "Unknown"

detectUnused == << offset, pos, record, records, entry_map, i, path_entry, frames,
                   last_length, calls, entries, descriptors, starts, filetime, converted,
                   error, boot_sector, usn_reason, seen >>

\* the call detect_file_type(path) on a file with the bytes of data
DetectFileType ==
    /\ kind = "detect" /\ pc = "call"
    /\ file_type' = Some(detect_file_type(data))
    /\ pc' = "done" /\ result' = "Ok"
    /\ UNCHANGED << kind, build, data >>
    /\ UNCHANGED detectUnused

\* a plausible slip: the arms of UsnJournal and Sds exchanged
main_match_ArmsExchanged(t) ==
    IF t = "Mft" THEN "process_mft"
    ELSE IF t = "UsnJournal" THEN "process_sds"
    ELSE IF t = "Boot" THEN "process_boot"
    ELSE IF t = "Sds" THEN "process_usn_journal"
    ELSE IF t = "I30" THEN "process_i30"
    ELSE IF t = "LogFile" THEN "logfile"
    ELSE "exit"

\* main: match file_type; the arm taken, "logfile" for the warning that
\* LogFile processing is not implemented, "exit" for the error of an unknown
\* file type and std::process::exit(1)
main_match(t) ==
    IF t = "Mft" THEN "process_mft"
    ELSE IF t = "UsnJournal" THEN "process_usn_journal"
    ELSE IF t = "Boot" THEN "process_boot"
    ELSE IF t = "Sds" THEN "process_sds"
    ELSE IF t = "I30" THEN "process_i30"
    ELSE IF t = "LogFile" THEN "logfile"
    ELSE "exit"

\* main, from the value detect_file_type returned to the arm of the match
MainDispatch ==
    /\ kind = "detect" /\ pc = "done"
    /\ file_type # None
    /\ pc' = main_match(file_type[1])
    /\ UNCHANGED << kind, build, data, result, file_type >>
    /\ UNCHANGED detectUnused

NextDetect == DetectFileType \/ MainDispatch

-----------------------------------------------------------------------------
(* Input buffers.  A buffer is assembled from byte strings placed at offsets. *)

\* the byte string bs placed at offset p (its zero bytes need not be written)
At(p, bs) == [k \in {p + j - 1 : j \in {x \in 1..Len(bs) : bs[x] # 0}} |-> bs[k - p + 1]]

\* n (below 2^31) as a w-byte little-endian word, w <= 4
LE(n, w) == [k \in 1..w |-> (n \div (256 ^ (k - 1))) % 256] \o << >>

\* n (below 2^31) as a u64
LE64(n) == LE(n, 4) \o <<0, 0, 0, 0>>

Zeros(n) == [k \in 1..n |-> 0] \o << >>

\* the UTF-16LE bytes of a sequence of code units
Utf16Bytes(units) ==
    [k \in 1..(2 * Len(units)) |->
        IF k % 2 = 1 THEN units[(k + 1) \div 2] % 256 ELSE units[k \div 2] \div 256] \o << >>

\* 132000000000000000 (2019-04-08), 116444736000000000 (1970-01-01 00:00:00),
\* the tick before it, 1 and 0
FT_2019 == <<0, 0, 90, 246, 76, 245, 212, 1>>

FT_EPOCH == <<0, 128, 62, 213, 222, 177, 157, 1>>

FT_BEFORE_EPOCH == <<255, 127, 62, 213, 222, 177, 157, 1>>

FT_ONE == <<1, 0, 0, 0, 0, 0, 0, 0>>

\* a file reference whose bits 32..47 are not zero: entry 2^32 + 5, sequence 2
REF_WIDE == <<5, 0, 0, 0, 1, 0, 2, 0>>

\* the bytes bs with the 8 bytes behind the first `at` replaced by ref
WithReference(bs, at, ref) == SubSeq(bs, 1, at) \o ref \o SubSeq(bs, at + 9, Len(bs))

\* an attribute: its 16-byte header with the declared length, then its body
Attr(type, length, body) == [length |-> length, bytes |-> type \o LE(length, 4) \o Zeros(8) \o body]

\* the body of a $STANDARD_INFORMATION: resident header, four FILETIMEs, si_flags
SIBody(ft) == Zeros(8) \o ft \o ft \o ft \o ft \o <<32, 0, 0, 0>>

\* the body of a $FILE_NAME: resident header, parent reference (entry, sequence 1),
\* four FILETIMEs, allocated and real size, flags, reparse value, name_length,
\* name_type and the name
FNBodyLen(parent, ft, name_length, name_type, units) ==
    Zeros(8) \o LE(parent, 4) \o <<0, 0, 1, 0>> \o ft \o ft \o ft \o ft
        \o LE64(4096) \o LE64(1234) \o Zeros(8) \o << name_length, name_type >>
        \o Utf16Bytes(units)

FNBody(parent, ft, name_type, units) == FNBodyLen(parent, ft, Len(units), name_type, units)

\* a well-formed attribute: the declared length is its size
SI(ft) == Attr(ATTR_STANDARD_INFORMATION, 16 + Len(SIBody(ft)), SIBody(ft))

FN(parent, name_type, units) ==
    Attr(ATTR_FILE_NAME, 16 + Len(FNBody(parent, FT_2019, name_type, units)),
         FNBody(parent, FT_2019, name_type, units))

\* where the k-th attribute of attrs starts when the first starts at first: each
\* attribute follows the one before at that one's declared length
AttrStart(attrs, first, k) ==
    LET S[j \in 1..k] == IF j = 1 THEN first ELSE S[j - 1] + attrs[j - 1].length
    IN  S[k]

RECURSIVE AttrsAt(_, _, _)
AttrsAt(attrs, first, k) ==
    IF k > Len(attrs) THEN EmptyMap
    ELSE At(AttrStart(attrs, first, k), attrs[k].bytes) @@ AttrsAt(attrs, first, k + 1)

\* a FILE slot: the header (sequence number 1, flags) with the first attribute
\* offset, the attributes and, when `end`, the end marker behind the last one
File(first, flags, attrs, end) ==
    [first |-> first, flags |-> flags, attrs |-> attrs, end |-> end]

\* a slot that holds no FILE record
Unused == [first |-> 0, flags |-> 0, attrs |-> << >>, end |-> FALSE]

SlotBytes(s) ==
    IF s = Unused THEN EmptyMap
    ELSE LET endAt == AttrStart(s.attrs \o << Attr(END_OF_ATTRIBUTES, 0, << >>) >>,
                                s.first, Len(s.attrs) + 1)
         IN  At(0, MFT_SIGNATURE) @@ At(16, LE(1, 2)) @@ At(20, LE(s.first, 2))
                @@ At(22, LE(s.flags, 2))
                @@ AttrsAt(s.attrs, s.first, 1)
                @@ (IF s.end THEN At(endAt, END_OF_ATTRIBUTES) ELSE EmptyMap)

\* the slots laid out one behind the other, each cut to MFT_RECORD_SIZE bytes
SlotsAt(slots) ==
    LET S == [k \in 1..Len(slots) |-> SlotBytes(slots[k])] \o << >>
        D == UNION {{(k - 1) * MFT_RECORD_SIZE + q :
                        q \in {x \in DOMAIN S[k] : x < MFT_RECORD_SIZE}} : k \in 1..Len(slots)}
    IN  [q \in D |-> S[q \div MFT_RECORD_SIZE + 1][q % MFT_RECORD_SIZE]] @@ EmptyMap

\* the buffer of the slots, followed by tail (fewer than 1024 bytes)
MftBuffer(slots, tail) ==
    [len |-> Len(slots) * MFT_RECORD_SIZE + Len(tail),
     bytes |-> SlotsAt(slots) @@ At(Len(slots) * MFT_RECORD_SIZE, tail)]

-----------------------------------------------------------------------------
(* The MFT inputs *)

\* the number of slots of the buffers that lay out a parent graph
MaxSlots == 7

\* the entry the graphs hang their last record on, and an entry no buffer holds
LeafEntry == MaxSlots - 1

MissingEntry == MaxSlots + 2

\* the one-letter name of entry e: "a" for 0, "b" for 1, ...
NameOf(e) == << 97 + (e % 26) >>

\* a FILE record in use with one $FILE_NAME (Win32) and the end marker
Named(parent, units) == File(56, 1, << FN(parent, 1, units) >>, TRUE)

\* a FILE record with a $STANDARD_INFORMATION and no $FILE_NAME
Nameless(ft) == File(56, 1, << SI(ft) >>, TRUE)

GraphParents == {1, 2, ROOT_ENTRY, MissingEntry}

\* what slot e of a graph buffer may hold
GraphChoices(e) ==
    IF e = 0 THEN {Unused, Named(ROOT_ENTRY, NameOf(0))}
    ELSE IF e = 1 THEN {Unused} \cup {Named(p, NameOf(1)) : p \in GraphParents}
    ELSE IF e = 2 THEN {Unused} \cup {Named(p, NameOf(2)) : p \in GraphParents}
                           \cup {Named(p, << >>) : p \in {1, ROOT_ENTRY}}
    ELSE IF e = ROOT_ENTRY THEN {Unused, Named(ROOT_ENTRY, << Dot >>), Named(1, << Dot >>)}
    ELSE IF e = LeafEntry THEN {Nameless(FT_2019)}
                                   \cup {Named(p, NameOf(e)) : p \in {1, 2, MissingEntry}}
    ELSE {Unused}

RECURSIVE GraphSlots(_)
\* the slot sequences of length n of the graph buffers
GraphSlots(n) ==
    IF n = 0 THEN {<< >>}
    ELSE {Append(t, c) : t \in GraphSlots(n - 1), c \in GraphChoices(n - 1)}

MftGraphInputs == {MftBuffer(slots, << >>) : slots \in GraphSlots(MaxSlots)}

\* a chain longer than the depth limit: entries 6 .. 6 + MAX_DEPTH + 2, each the
\* child of the next, the last one a child of the root
ChainSlots ==
    [k \in 1..(MAX_DEPTH + 9) |->
        IF k <= 6 THEN Unused
        ELSE Named(IF k = MAX_DEPTH + 9 THEN ROOT_ENTRY ELSE k, NameOf(k - 1))]

MftChainInput == MftBuffer(ChainSlots, << >>)

\* "FOO~1.TXT", "Foo.txt", "b.c", "d", an unpaired surrogate, a surrogate pair
NAME_DOS == <<70, 79, 79, 126, 49, 46, 84, 88, 84>>

NAME_WIN32 == <<70, 111, 111, 46, 116, 120, 116>>

NAME_DOTTED == <<98, 46, 99>>

NAME_PLAIN == <<100>>

NAME_UNPAIRED == <<55296>>

NAME_PAIR == <<55357, 56832>>

\* "/x": the parser takes any UTF-16 units as a name
NAME_SLASH == <<47, 120>>

\* slots whose attributes are well-formed
WellFormedSlots ==
    {Nameless(ft) : ft \in {FT_2019, FT_EPOCH, FT_BEFORE_EPOCH, FT_ONE, Zero8}}
    \cup {File(56, 3, << SI(FT_2019), FN(ROOT_ENTRY, 2, NAME_DOS), FN(ROOT_ENTRY, 1, NAME_WIN32) >>, TRUE),
          File(56, 1, << FN(ROOT_ENTRY, 1, NAME_DOTTED), FN(ROOT_ENTRY, 1, NAME_PLAIN) >>, TRUE),
          File(56, 1, << FN(1, 1, NAME_UNPAIRED) >>, TRUE),
          File(56, 1, << FN(1, 1, NAME_PAIR) >>, TRUE),
          File(56, 0, << Attr(ATTR_DATA, 24, Zeros(8)), SI(FT_2019) >>, TRUE),
          File(56, 1, << >>, TRUE),
          Named(ROOT_ENTRY, NAME_SLASH),
          Named(ROOT_ENTRY, << >>),
          File(56, 1, << Attr(ATTR_FILE_NAME, 16 + Len(FNBody(1, FT_2019, 1, NAME_PLAIN)),
                              WithReference(FNBody(1, FT_2019, 1, NAME_PLAIN), 8, REF_WIDE)) >>,
               TRUE)}

\* slots with a FILE signature that are malformed: an attribute header, a
\* $STANDARD_INFORMATION body or a $FILE_NAME name that runs past the end of the
\* slot, a first attribute offset at or past the end, an attribute of length 0,
\* an attribute longer than the slot, and attributes without the end marker
MalformedSlots ==
    {File(1016, 1, << Attr(ATTR_STANDARD_INFORMATION, 72, << >>) >>, FALSE),
     File(1000, 1, << SI(FT_2019) >>, FALSE),
     File(932, 1, << FN(ROOT_ENTRY, 1, <<97, 98>>) >>, FALSE),
     File(940, 1, << FN(ROOT_ENTRY, 1, <<97>>) >>, FALSE),
     File(1022, 1, << >>, FALSE),
     File(2000, 1, << >>, FALSE),
     File(56, 1, << Attr(<<32, 0, 0, 0>>, 0, << >>) >>, FALSE),
     File(56, 1, << Attr(ATTR_FILE_NAME, 0, FNBody(ROOT_ENTRY, FT_2019, 1, NAME_PLAIN)) >>, FALSE),
     File(56, 1, << Attr(ATTR_DATA, 5000, << >>) >>, FALSE),
     File(56, 1, << FN(ROOT_ENTRY, 1, NAME_PLAIN) >>, FALSE)}

\* the bytes of a slot cut off by the end of the buffer: a FILE header
PartialTail == MFT_SIGNATURE \o Zeros(16) \o <<56, 0, 1, 0>>

\* a slot under test, then a well-formed or unused slot, then nothing or a
\* partial slot
MftSlotInputs ==
    {MftBuffer(<< s, t >>, tail) :
        s \in WellFormedSlots \cup MalformedSlots \cup {Unused},
        t \in {Unused, Named(ROOT_ENTRY, NameOf(1)), Named(0, NameOf(1)), Nameless(FT_2019)},
        tail \in {<< >>, PartialTail}}

MftInputs == MftGraphInputs \cup MftSlotInputs \cup {MftChainInput}

InitMft ==
    /\ kind = "mft"
    /\ build = "release"
    /\ data \in MftInputs
    /\ pc = "slot"
    /\ result = "none"
    /\ offset = 0
    /\ pos = 0
    /\ record = NoRecord
    /\ records = << >>
    /\ entry_map = EmptyMap
    /\ i = 0
    /\ path_entry = 0
    /\ frames = << >>
    /\ last_length = -1
    /\ calls = << >>
    /\ entries = << >>
    /\ descriptors = << >>
    /\ starts = << >>
    /\ filetime = Zero8
    /\ converted = << >>
    /\ error = None
    /\ boot_sector = None
    /\ file_type = None
    /\ usn_reason = None
    /\ seen = << >>

SpecMft == InitMft /\ [][NextMft]_vars

-----------------------------------------------------------------------------
(* The FILETIME conversions on their own *)

timeUnused == << data, offset, pos, record, records, entry_map, i, path_entry, frames,
                 last_length, calls, entries, descriptors, starts, error, boot_sector,
                 file_type, usn_reason, seen >>

\* what the decoder `by` stores for the FILETIME: panic, or the timestamp field
Stored(by, panic, timestamp) == << [by |-> by, panic |-> panic, timestamp |-> timestamp] >>

\* parse_standard_info and parse_file_name store Some(windows_filetime_to_datetime(ft))
ConvertMft ==
    /\ kind = "time" /\ pc = "mft"
    /\ converted' = Stored("mft", FALSE, Some(windows_filetime_to_datetime(filetime)))
    /\ pc' = "done" /\ result' = "Ok"
    /\ UNCHANGED << kind, build, filetime >>
    /\ UNCHANGED timeUnused

\* UsnJournalParser::parse_entry stores windows_filetime_to_datetime(timestamp),
\* a DateTime<Utc>: the field has no None
ConvertUsn ==
    /\ kind = "time" /\ pc = "usn"
    /\ LET r == usn_windows_filetime_to_datetime(filetime, build)
       IN  IF r.panic
           THEN /\ converted' = Stored("usn", TRUE, None)
                /\ pc' = "panic" /\ result' = "panic"
           ELSE /\ converted' = Stored("usn", FALSE, Some(r.value))
                /\ pc' = "done" /\ result' = "Ok"
    /\ UNCHANGED << kind, build, filetime >>
    /\ UNCHANGED timeUnused

\* I30Parser::parse_entry stores windows_filetime_to_datetime(created), likewise
ConvertI30 ==
    /\ kind = "time" /\ pc = "i30"
    /\ LET r == i30_windows_filetime_to_datetime(filetime, build)
       IN  IF r.panic
           THEN /\ converted' = Stored("i30", TRUE, None)
                /\ pc' = "panic" /\ result' = "panic"
           ELSE /\ converted' = Stored("i30", FALSE, Some(r.value))
                /\ pc' = "done" /\ result' = "Ok"
    /\ UNCHANGED << kind, build, filetime >>
    /\ UNCHANGED timeUnused

NextTime == ConvertMft \/ ConvertUsn \/ ConvertI30

\* the upper two bytes of the FILETIMEs tried, around 0, around the Unix epoch
\* (0x019D..) and up to the largest u64
FT_BYTE7 == {0, 1, 2, 127, 128, 255}

FT_BYTE6 == {0, 156, 157, 158, 255}

FileTimes ==
    {Zero8, FT_ONE, FT_BEFORE_EPOCH, FT_EPOCH, FT_2019, <<255, 255, 255, 255, 255, 255, 255, 255>>}
    \cup {<<b0, 201, b2, 0, 77, 0, 158, 1>> : b0 \in {0, 99, 255}, b2 \in {0, 150}}
    \cup {<<1, 0, 0, 0, 0, 0, b6, b7>> : b6 \in FT_BYTE6, b7 \in FT_BYTE7}

\* the values every run starts from, besides kind, build, data, pc and filetime
Fresh ==
    /\ result = "none"
    /\ offset = 0
    /\ pos = 0
    /\ record = NoRecord
    /\ records = << >>
    /\ entry_map = EmptyMap
    /\ i = 0
    /\ path_entry = 0
    /\ frames = << >>
    /\ last_length = -1
    /\ calls = << >>
    /\ entries = << >>
    /\ descriptors = << >>
    /\ starts = << >>
    /\ converted = << >>
    /\ error = None
    /\ boot_sector = None
    /\ file_type = None
    /\ usn_reason = None
    /\ seen = << >>

EmptyBuffer == [len |-> 0, bytes |-> EmptyMap]

InitTime ==
    /\ kind = "time"
    /\ build \in {"debug", "release"}
    /\ data = EmptyBuffer
    /\ pc \in {"mft", "usn", "i30"}
    /\ filetime \in FileTimes
    /\ Fresh

SpecTime == InitTime /\ [][NextTime]_vars

-----------------------------------------------------------------------------
(* The inputs of the USN, I30 and SDS parsers *)

\* the buffer that holds the bytes bs
Buffer(bs) == [len |-> Len(bs), bytes |-> At(0, bs) @@ EmptyMap]

RECURSIVE Concat(_)
\* the byte strings of a sequence, one behind the other
Concat(ss) == IF ss = << >> THEN << >> ELSE ss[1] \o Concat(Tail(ss))

RECURSIVE SeqsUpTo(_, _)
\* the sequences of at most n elements of S
SeqsUpTo(S, n) ==
    IF n = 0 THEN {<< >>}
    ELSE SeqsUpTo(S, n - 1) \cup {Append(t, x) : t \in SeqsUpTo(S, n - 1), x \in S}

\* a USN record (its usn field is 4096): the 60-byte header, then the name at offset 60, zero-padded to
\* record_length if that is longer
UsnRecord(record_length, entry, parent, ft, reason, name_length, name_offset, units) ==
    LET head == LE(record_length, 4) \o <<2, 0, 0, 0>> \o LE64(entry) \o LE64(parent)
                    \o LE64(4096) \o ft \o reason \o Zeros(12)
                    \o LE(name_length, 2) \o LE(name_offset, 2)
        body == head \o Utf16Bytes(units)
    IN  body \o Zeros(IF record_length > Len(body) THEN record_length - Len(body) ELSE 0)

\* DATA_EXTEND | FILE_CREATE, no flag of the table, and FILE_DELETE | CLOSE
REASON_CREATE == <<2, 1, 0, 0>>

REASON_UNKNOWN == <<8, 0, 64, 0>>

REASON_CLOSE == <<0, 2, 0, 128>>

\* well-formed records ("a.txt", "b", no name), a record before the Unix epoch,
\* and records whose record_length is not larger than the header
UsnRecords ==
    {UsnRecord(72, 7, ROOT_ENTRY, FT_2019, REASON_CREATE, 10, 60, <<97, 46, 116, 120, 116>>),
     UsnRecord(64, 8, 7, FT_EPOCH, REASON_UNKNOWN, 2, 60, <<98>>),
     UsnRecord(60, 9, 7, FT_2019, REASON_CLOSE, 0, 60, << >>),
     UsnRecord(64, 7, ROOT_ENTRY, FT_ONE, REASON_CREATE, 2, 60, <<99>>),
     UsnRecord(8, 7, ROOT_ENTRY, FT_2019, REASON_CREATE, 0, 60, << >>),
     UsnRecord(60, 7, ROOT_ENTRY, FT_2019, REASON_CREATE, 2, 8, << >>)}

\* what follows the records: nothing, a run of zeros, fewer than 60 bytes, a
\* record whose name lies past the end of the buffer, one whose name offset
\* lies past the end with an empty name, a record behind a record_length of 0,
\* a record whose file reference has bits 32..47 set
UsnTails ==
    {<< >>, Zeros(64), <<72, 0, 0, 0>> \o Zeros(20),
     WithReference(UsnRecord(64, 8, 7, FT_2019, REASON_CREATE, 2, 60, <<98>>), 8, REF_WIDE),
     Zeros(60) \o UsnRecord(64, 8, 7, FT_2019, REASON_CREATE, 2, 60, <<98>>),
     SubSeq(UsnRecord(80, 7, ROOT_ENTRY, FT_2019, REASON_CREATE, 20, 60, <<97, 98>>), 1, 64),
     UsnRecord(60, 7, ROOT_ENTRY, FT_2019, REASON_CREATE, 0, 200, << >>)}

\* the number of records put in front of the tail
MaxUsnRecords == 2

UsnInputs ==
    {Buffer(Concat(rs) \o tail) : rs \in SeqsUpTo(UsnRecords, MaxUsnRecords), tail \in UsnTails}

InitUsn ==
    /\ kind = "usn"
    /\ build \in {"debug", "release"}
    /\ data \in UsnInputs
    /\ pc = "loop"
    /\ filetime = Zero8
    /\ Fresh

SpecUsn == InitUsn /\ [][NextUsn]_vars

\* an INDX block's first 40 bytes, with the entries_offset given
IndxHeader(entries_offset) ==
    INDX_SIGNATURE \o Zeros(20) \o LE(entries_offset, 4) \o Zeros(12)

\* an index entry: the 82 bytes in front of the name, then the name,
\* zero-padded to entry_length if that is longer
IndexEntry(entry_length, flags, entry, parent, ft, attributes, units) ==
    LET head == LE64(entry) \o LE(entry_length, 2) \o LE(2 * Len(units), 2) \o LE(flags, 4)
                    \o LE64(parent) \o ft \o ft \o ft \o ft \o Zeros(8) \o LE64(3)
                    \o LE(attributes, 4) \o Zeros(4) \o << Len(units), 1 >>
        body == head \o Utf16Bytes(units)
    IN  body \o Zeros(IF entry_length > Len(body) THEN entry_length - Len(body) ELSE 0)

\* a file "a", a directory "Foo.txt", an entry with FILETIMEs of 0, and an
\* entry whose entry_length leads into the entry itself
IndexEntries ==
    {IndexEntry(88, 0, 7, ROOT_ENTRY, FT_2019, 32, <<97>>),
     IndexEntry(96, 0, 8, 7, FT_EPOCH, 16, NAME_WIN32),
     IndexEntry(88, 0, 9, 7, Zero8, 32, <<98>>),
     IndexEntry(8, 0, 7, ROOT_ENTRY, FT_2019, 32, <<99>>)}

\* what follows the entries: nothing, an end entry (flags & 2), an entry of
\* length 0, an entry cut off in its fixed part, an entry cut off in its name,
\* fewer than 16 bytes, an entry behind an end entry, an entry whose parent
\* reference has bits 32..47 set
IndexTails ==
    {<< >>,
     WithReference(IndexEntry(88, 0, 7, ROOT_ENTRY, FT_2019, 32, <<97>>), 16, REF_WIDE),
     SubSeq(IndexEntry(16, 2, 0, 0, Zero8, 0, << >>), 1, 16),
     SubSeq(IndexEntry(16, 2, 0, 0, Zero8, 0, << >>), 1, 16)
         \o IndexEntry(88, 0, 7, ROOT_ENTRY, FT_2019, 32, <<97>>),
     Zeros(16),
     SubSeq(IndexEntry(88, 0, 7, ROOT_ENTRY, FT_2019, 32, <<97>>), 1, 40),
     SubSeq(IndexEntry(96, 0, 8, 7, FT_2019, 16, NAME_WIN32), 1, 90),
     <<7, 0, 0, 0>>}

\* the number of entries put in front of the tail
MaxIndexEntries == 2

\* blocks with the entries at 40, and blocks that end in or right behind the
\* header, lack the signature or jump past the end
I30Inputs ==
    {Buffer(IndxHeader(16) \o Concat(es) \o tail) :
        es \in SeqsUpTo(IndexEntries, MaxIndexEntries), tail \in IndexTails}
    \cup {Buffer(bs) : bs \in {<< >>, <<73, 78, 68>>, INDX_SIGNATURE,
                               SubSeq(IndxHeader(16), 1, 39),
                               IndxHeader(16),
                               IndxHeader(4000) \o IndexEntry(88, 0, 7, ROOT_ENTRY, FT_2019, 32, <<97>>),
                               MFT_SIGNATURE \o SubSeq(IndxHeader(16), 5, 40)
                                   \o IndexEntry(88, 0, 7, ROOT_ENTRY, FT_2019, 32, <<97>>)}}

InitI30 ==
    /\ kind = "i30"
    /\ build \in {"debug", "release"}
    /\ data \in I30Inputs
    /\ pc = "header"
    /\ filetime = Zero8
    /\ Fresh

SpecI30 == InitI30 /\ [][NextI30]_vars

\* an SDS entry: hash, id, the stored offset, length, then the payload
SdsEntry(hash, id, stored_offset, length, payload) ==
    LE(hash, 4) \o LE(id, 4) \o LE64(stored_offset) \o LE(length, 4) \o payload

\* entries with their whole payload
SdsEntries ==
    {SdsEntry(17, 256, 0, 4, <<1, 2, 3, 4>>),
     SdsEntry(18, 257, 4096, 1, <<9>>),
     SdsEntry(19, 258, 7, 24, SdsEntry(20, 259, 0, 2, <<5, 6>>) \o <<0, 0>>)}

\* what follows the entries: nothing, a length of 0, a length of 0x10001, a
\* payload cut off by the end of the buffer, fewer than 20 bytes
SdsTails ==
    {<< >>,
     SdsEntry(21, 260, 0, 0, <<1, 2>>),
     SdsEntry(22, 261, 0, SDS_MAX_LENGTH + 1, <<1, 2>>),
     SdsEntry(23, 262, 0, 8, <<1, 2, 3>>),
     <<24, 0, 0, 0, 1>>}

\* the number of entries put in front of the tail
MaxSdsEntries == 3

\* buffers of one small entry and an entry of the largest length accepted, or
\* of the smallest length refused, whose payload (all zeros but two bytes) lies
\* wholly in the buffer
SdsLimitInputs ==
    {[len |-> 21 + 20 + length + 4,
      bytes |-> At(0, SdsEntry(18, 257, 4096, 1, <<9>>) \o SdsEntry(25, 263, 0, length, <<1, 2>>))
                    @@ EmptyMap] :
        length \in {SDS_MAX_LENGTH, SDS_MAX_LENGTH + 1}}

SdsInputs ==
    {Buffer(Concat(es) \o tail) : es \in SeqsUpTo(SdsEntries, MaxSdsEntries), tail \in SdsTails}
    \cup SdsLimitInputs

InitSds ==
    /\ kind = "sds"
    /\ build \in {"debug", "release"}
    /\ data \in SdsInputs
    /\ pc = "loop"
    /\ filetime = Zero8
    /\ Fresh

SpecSds == InitSds /\ [][NextSds]_vars

-----------------------------------------------------------------------------
(* The inputs of BootParser and of detect_file_type *)

\* the buffer of n bytes that begins with bs (cut to n bytes) and goes on with zeros
Cut(bs, n) ==
    [len |-> n,
     bytes |-> At(0, SubSeq(bs, 1, IF n < Len(bs) THEN n ELSE Len(bs))) @@ EmptyMap]

\* the first 80 bytes of a boot sector: jump, OEM ID, BPB (512 bytes a sector,
\* 8 sectors a cluster), the NTFS fields
BootBytes(oem, clusters_per_mft_record) ==
    <<235, 82, 144>> \o oem \o LE(512, 2) \o <<8>> \o Zeros(26)
        \o LE64(1000) \o LE64(4) \o LE64(8)
        \o << clusters_per_mft_record, 0, 0, 0, 1, 0, 0, 0 >>
        \o <<1, 2, 3, 4, 5, 6, 7, 8>>

\* "NTFS    ", "NTFS" and NULs, "MSDOS5.0", NULs, and two that are not UTF-8:
\* 'N', a lead byte without its continuation, 'A', U+20AC, 0xFF, NUL; and
\* "ABCDEF" with the first two bytes of a 4-byte sequence
OemIds ==
    {DETECT_NTFS, <<78, 84, 70, 83, 0, 0, 0, 0>>, <<77, 83, 68, 79, 83, 53, 46, 48>>,
     Zeros(8), <<78, 200, 65, 226, 130, 172, 255, 0>>, <<65, 66, 67, 68, 69, 70, 240, 159>>}

\* 0xF6 is -10 as an i8
ClustersPerMftRecord == {1, 246}

BootLengths == {0, 3, 11, 79, 80, 511, 512, 513, 1024}

BootInputs ==
    {Cut(BootBytes(oem, c), n) :
        oem \in OemIds, c \in ClustersPerMftRecord, n \in BootLengths}

InitBoot ==
    /\ kind = "boot"
    /\ build = "release"
    /\ data \in BootInputs
    /\ pc = "call"
    /\ filetime = Zero8
    /\ Fresh

SpecBoot == InitBoot /\ [][NextBoot]_vars

\* how files begin: the two signatures, boot sectors, first words around the
\* limits of the USN test, "NTFS    " behind a small first word
DetectContents ==
    {DETECT_FILE \o Zeros(4), DETECT_INDX \o Zeros(4),
     <<70, 73, 76, 70>>, <<70, 73, 76>> \o DETECT_NTFS,
     BootBytes(DETECT_NTFS, 246), BootBytes(<<78, 84, 70, 83, 0, 0, 0, 0>>, 246),
     <<61, 0, 0>> \o DETECT_NTFS,
     LE(60, 4), LE(61, 4), LE(72, 4), LE(65535, 4), LE(65536, 4), LE(16777277, 4),
     Zeros(4), <<61, 0, 0, 128>>,
     Concat(<< SdsEntry(17, 256, 0, 4, <<1, 2, 3, 4>>), SdsEntry(18, 257, 24, 1, <<9>>) >>),
     SdsEntry(4660, 256, 0, 60, Zeros(60)),
     <<82, 83, 84, 82>> \o Zeros(4), <<82, 67, 82, 68>> \o Zeros(4)}

DetectLengths == {0, 1, 3, 4, 11, 59, 60, 61, 511, 512, 4096}

DetectInputs == {Cut(bs, n) : bs \in DetectContents, n \in DetectLengths}

InitDetect ==
    /\ kind = "detect"
    /\ build = "release"
    /\ data \in DetectInputs
    /\ pc = "call"
    /\ filetime = Zero8
    /\ Fresh

SpecDetect == InitDetect /\ [][NextDetect]_vars

-----------------------------------------------------------------------------
(* format_usn_reason on its own *)

reasonUnused == << data, offset, pos, record, records, entry_map, i, path_entry, frames,
                   last_length, calls, entries, descriptors, starts, filetime, converted,
                   error, boot_sector, file_type, seen >>

\* the call format_usn_reason(reason)
FormatReason ==
    /\ kind = "reason" /\ pc = "call"
    /\ usn_reason' = [usn_reason EXCEPT !.text = Some(format_usn_reason(usn_reason.word))]
    /\ pc' = "done" /\ result' = "Ok"
    /\ UNCHANGED << kind, build >>
    /\ UNCHANGED reasonUnused

NextReason == FormatReason

\* the values tried for the four bytes of the reason, least significant first:
\* every flag of the table and every bit outside it occurs
ReasonBytes ==
    << {0, 1, 2, 4, 8, 48, 64, 128, 119}, {0, 1, 2, 255}, {0, 1, 32, 63, 64, 192},
       {0, 127, 128, 255} >>

ReasonWords ==
    {<< b1, b2, b3, b4 >> : b1 \in ReasonBytes[1], b2 \in ReasonBytes[2],
                            b3 \in ReasonBytes[3], b4 \in ReasonBytes[4]}

InitReason ==
    /\ kind = "reason"
    /\ build = "release"
    /\ data = EmptyBuffer
    /\ pc = "call"
    /\ filetime = Zero8
    /\ result = "none"
    /\ offset = 0
    /\ pos = 0
    /\ record = NoRecord
    /\ records = << >>
    /\ entry_map = EmptyMap
    /\ i = 0
    /\ path_entry = 0
    /\ frames = << >>
    /\ last_length = -1
    /\ calls = << >>
    /\ entries = << >>
    /\ descriptors = << >>
    /\ starts = << >>
    /\ converted = << >>
    /\ error = None
    /\ boot_sector = None
    /\ file_type = None
    /\ usn_reason \in {[word |-> w, text |-> None] : w \in ReasonWords}
    /\ seen = << >>

SpecReason == InitReason /\ [][NextReason]_vars

\* the three parsers of streams of variable-length records
InitStreams == InitUsn \/ InitI30 \/ InitSds

NextStreams == NextUsn \/ NextI30 \/ NextSds

SpecStreams == InitStreams /\ [][NextStreams]_vars

-----------------------------------------------------------------------------
(* parse() called again on the same parser.  The caller reads the output    *)
(* through the accessor (get_records, get_entries, get_descriptors) and     *)
(* calls parse() once more: the call begins with the parser's fields as the *)
(* call before left them and with fresh locals.                             *)

\* how often parse() is called on one parser
MaxParseCalls == 2

\* a parse that begins by emptying its output
OutputAtCall_Cleared(out) == << >>

\* the output sequence as parse() finds it: no parse() assigns self.records,
\* self.entries or self.descriptors before its loop
OutputAtCall(out) == out

\* whether parse() has returned Ok(()) and may be called again
Returned == pc = "done" /\ result = "Ok" /\ Len(seen) + 1 < MaxParseCalls

\* MftParser::parse again: get_records, then let mut offset = 0
MftParseAgain ==
    /\ kind = "mft" /\ Returned
    /\ seen' = Append(seen, records)
    /\ records' = OutputAtCall(records)
    /\ pc' = "slot" /\ result' = "none"
    /\ offset' = 0 /\ pos' = 0 /\ record' = NoRecord /\ last_length' = -1
    /\ i' = 0 /\ path_entry' = 0 /\ frames' = << >> /\ calls' = << >>
    /\ UNCHANGED << kind, build, data, entry_map, entries, descriptors, starts, filetime,
                    converted, error, boot_sector, file_type, usn_reason >>

\* UsnJournalParser::parse again: get_entries, then a new Cursor and offset = 0
UsnParseAgain ==
    /\ kind = "usn" /\ Returned
    /\ seen' = Append(seen, entries)
    /\ entries' = OutputAtCall(entries)
    /\ pc' = "loop" /\ result' = "none"
    /\ offset' = 0 /\ pos' = 0
    /\ UNCHANGED << kind, build, data, record, records, entry_map, i, path_entry, frames,
                    last_length, calls, descriptors, starts, filetime, converted, error,
                    boot_sector, file_type, usn_reason >>

\* I30Parser::parse again: get_entries, then a new Cursor
I30ParseAgain ==
    /\ kind = "i30" /\ Returned
    /\ seen' = Append(seen, entries)
    /\ entries' = OutputAtCall(entries)
    /\ pc' = "header" /\ result' = "none"
    /\ pos' = 0
    /\ UNCHANGED << kind, build, data, offset, record, records, entry_map, i, path_entry,
                    frames, last_length, calls, descriptors, starts, filetime, converted,
                    error, boot_sector, file_type, usn_reason >>

\* SdsParser::parse again: get_descriptors, then a new Cursor
SdsParseAgain ==
    /\ kind = "sds" /\ Returned
    /\ seen' = Append(seen, descriptors)
    /\ descriptors' = OutputAtCall(descriptors)
    /\ pc' = "loop" /\ result' = "none"
    /\ pos' = 0
    /\ UNCHANGED << kind, build, data, offset, record, records, entry_map, i, path_entry,
                    frames, last_length, calls, entries, starts, filetime, converted,
                    error, boot_sector, file_type, usn_reason >>

NextAgain == MftParseAgain \/ UsnParseAgain \/ I30ParseAgain \/ SdsParseAgain

\* the four parsers, each called up to MaxParseCalls times
SpecAgain == (InitMft \/ InitStreams) /\ [][NextMft \/ NextStreams \/ NextAgain]_vars

\* every parser and conversion
Init == InitMft \/ InitStreams \/ InitTime \/ InitReason \/ InitBoot \/ InitDetect

Next ==
    \/ NextMft \/ NextStreams \/ NextTime \/ NextReason \/ NextBoot \/ NextDetect
    \/ NextAgain

Spec == Init /\ [][Next]_vars

-----------------------------------------------------------------------------
(* Reference definitions for the properties of the MFT parser *)

\* the indices (1-based) of the records whose parent_path the resolver has set
Resolved == IF kind = "mft" /\ pc \in {"resolve", "done"} THEN 1..i ELSE {}

\* whether slot k lies wholly in the buffer and starts with "FILE"
IsFileSlot(d, k) ==
    /\ MFT_RECORD_SIZE * k + MFT_RECORD_SIZE <= d.len
    /\ Word(d, MFT_RECORD_SIZE * k, 4) = MFT_SIGNATURE

StartsWith(s, prefix) ==
    Len(s) >= Len(prefix) /\ SubSeq(s, 1, Len(prefix)) = prefix

\* Where following a parent reference leads: the index (1-based) of the record
\* of that entry, 0 for the root entry, -1 for an entry no record has.
PositionOf(recs, em, entry) ==
    IF entry = ROOT_ENTRY THEN 0
    ELSE IF entry \notin DOMAIN em THEN -1
    ELSE em[entry] + 1

NextPosition(recs, em, p) ==
    IF p < 1 THEN p ELSE PositionOf(recs, em, recs[p].parent_entry_number)

RECURSIVE Positions(_, _, _, _)
\* the n positions met from p on, p first
Positions(recs, em, p, n) ==
    IF n = 1 THEN << p >>
    ELSE LET half == n \div 2
             front == Positions(recs, em, p, half)
             back == Positions(recs, em, NextPosition(recs, em, front[half]), n - half)
         IN  front \o back

\* The ancestors of a record, found by following parent_entry_number from entry:
\* idx lists their record indices (1-based), the parent first; the walk ends at
\* the root ("root"), at an entry no record has ("missing"), or after
\* MAX_DEPTH + 1 ancestors ("deep").
AncestorWalk(recs, em, entry) ==
    LET ps == Positions(recs, em, PositionOf(recs, em, entry), MAX_DEPTH + 2)
        stops == {d \in 1..(MAX_DEPTH + 2) : ps[d] < 1}
        stop == CHOOSE d \in stops : \A e \in stops : d <= e
    IN  IF stops = {} THEN [idx |-> SubSeq(ps, 1, MAX_DEPTH + 1), end |-> "deep"]
        ELSE [idx |-> SubSeq(ps, 1, stop - 1),
              end |-> IF ps[stop] = 0 THEN "root"
                      ELSE IF stop <= MAX_DEPTH + 1 THEN "missing"
                      ELSE "deep"]

Ancestors(r) == AncestorWalk(records, entry_map, r.parent_entry_number)

\* the ancestors' file names, the root-most first
AncestorNames(r) ==
    LET a == Ancestors(r).idx
    IN  [k \in 1..Len(a) |-> records[a[Len(a) - k + 1]].file_name] \o << >>

RECURSIVE PlainJoin(_)
\* names[1] "/" names[2] "/" ... : a separator between any two names
PlainJoin(names) ==
    IF Len(names) = 0 THEN << >>
    ELSE IF Len(names) = 1 THEN names[1]
    ELSE LET half == Len(names) \div 2
             front == PlainJoin(SubSeq(names, 1, half))
             back == PlainJoin(SubSeq(names, half + 1, Len(names)))
         IN  front \o << Slash >> \o back

RECURSIVE AppendNames(_, _)
\* start, then each name in turn, with a separator before the name unless what
\* has been written so far is empty
AppendNames(start, names) ==
    IF Len(names) = 0 THEN start
    ELSE IF Len(names) = 1
    THEN IF start = << >> THEN names[1] ELSE start \o << Slash >> \o names[1]
    ELSE LET half == Len(names) \div 2
             before == AppendNames(start, SubSeq(names, 1, half))
         IN  IF before = << >> THEN AppendNames(<< >>, SubSeq(names, half + 1, Len(names)))
             ELSE AppendNames(before, SubSeq(names, half + 1, Len(names)))

\* the sentinel a walk's end puts in front of the names
SentinelOf(end) ==
    IF end = "deep" THEN PATH_TOO_DEEP
    ELSE IF end = "missing" THEN PARENT_NOT_FOUND
    ELSE << >>

Sentinels == {PATH_TOO_DEEP, PARENT_NOT_FOUND, INVALID_INDEX}

-----------------------------------------------------------------------------
(* Properties of the MFT parser *)

\* C1: every emitted MFT record's slot starts with "FILE" and lies wholly in the
\* buffer, and no slot is emitted twice: slots without the signature and a
\* trailing partial slot emit nothing.
C1_SlotAlignment ==
    kind = "mft" =>
        \A a \in 1..Len(records) :
            /\ IsFileSlot(data, records[a].entry_number)
            /\ \A b \in 1..Len(records) :
                   records[a].entry_number = records[b].entry_number => a = b

\* a run that ended with a record behind an unused slot, in a buffer that ends
\* in a partial slot with the signature
C1_Witness ==
    /\ kind = "mft" /\ pc = "done"
    /\ data.len % MFT_RECORD_SIZE # 0
    /\ Word(data, (data.len \div MFT_RECORD_SIZE) * MFT_RECORD_SIZE, 4) = MFT_SIGNATURE
    /\ \E a \in 1..Len(records) :
           /\ records[a].entry_number > 0
           /\ ~IsFileSlot(data, records[a].entry_number - 1)

\* C2: a malformed FILE slot never aborts the run: parse does not panic.
C2_CorruptSlotNeverAborts == kind = "mft" => result # "panic"

\* C3: an attribute whose total_length is 0 ends the attribute walk of its slot.
C3_ZeroLengthEndsWalk == (kind = "mft" /\ pc = "attrs") => last_length # 0

\* C4 as stated: the resolved parent_path is empty, a sentinel, or the '/'-joined
\* names of at most 100 ancestors.
C4_PathShape ==
    \A a \in Resolved :
        LET r == records[a]
            names == AncestorNames(r)
        IN  \/ r.parent_path = << >>
            \/ r.parent_path \in Sentinels
            \/ /\ Ancestors(r).end = "root"
               /\ Len(names) <= MAX_DEPTH
               /\ r.parent_path = AppendNames(<< >>, names)

\* C4 amended: the resolved parent_path is empty when build_path is not called,
\* and else the sentinel of the walk's end (none at the root) followed by the
\* names of the at most MAX_DEPTH + 1 ancestors, the root-most first, a '/'
\* before each name that does not start the path.
C4_PathShapeAmended ==
    \A a \in Resolved :
        LET r == records[a]
            names == AncestorNames(r)
        IN  IF ResolverRecurses(r)
            THEN /\ Len(names) <= MAX_DEPTH + 1
                 /\ r.parent_path = AppendNames(SentinelOf(Ancestors(r).end), names)
            ELSE r.parent_path = << >>

\* a resolved record on a cycle, one under a missing parent and one under a
\* chain longer than the depth limit that is no cycle
C4_Witness ==
    /\ kind = "mft" /\ pc = "done"
    /\ \E a \in Resolved :
           LET r == records[a]
               anc == Ancestors(r)
           IN  /\ ResolverRecurses(r)
               /\ \/ anc.end = "missing" /\ Len(anc.idx) >= 1
                  \/ anc.end = "deep" /\ \E k \in 1..Len(anc.idx) : anc.idx[k] = a

C4_WitnessLongChain ==
    /\ kind = "mft"
    /\ \E a \in Resolved :
           LET r == records[a]
               idx == Ancestors(r).idx
           IN  /\ Ancestors(r).end = "deep"
               /\ \A j, k \in 1..Len(idx) : idx[j] = idx[k] => j = k

\* C5: the ancestors whose names make up a record's parent_path never include
\* the record itself.
C5_CycleGuard ==
    \A a \in Resolved :
        LET idx == Ancestors(records[a]).idx
        IN  ResolverRecurses(records[a]) => \A k \in 1..Len(idx) : idx[k] # a

\* whether the record at index a lies on a cycle of two or more records
OnCycle(a) ==
    LET idx == Ancestors(records[a]).idx
    IN  ResolverRecurses(records[a]) /\ \E k \in 1..Len(idx) : idx[k] = a

C7_RootAndSelfParent ==
    \A a \in Resolved :
        LET r == records[a]
        IN  (r.parent_entry_number = ROOT_ENTRY \/ r.parent_entry_number = r.entry_number)
                => r.parent_path = << >> /\ calls[a] = 0

\* a finished run with entry 5 as its own parent, a child of entry 5 and a
\* record that is its own parent
C7_Witness ==
    /\ kind = "mft" /\ pc = "done"
    /\ \E a, b, c \in Resolved :
           /\ records[a].entry_number = ROOT_ENTRY /\ records[a].parent_entry_number = ROOT_ENTRY
           /\ records[b].entry_number # ROOT_ENTRY /\ records[b].parent_entry_number = ROOT_ENTRY
           /\ records[c].entry_number # ROOT_ENTRY
           /\ records[c].parent_entry_number = records[c].entry_number

\* whether the ancestors of r are all present, end below the root and have
\* non-empty names
GoodChain(r) ==
    LET names == AncestorNames(r)
    IN  /\ ResolverRecurses(r)
        /\ Ancestors(r).end = "root"
        /\ \A k \in 1..Len(names) : names[k] # << >>

\* whether one of the names begins with '/'
SomeBeginsWithSlash(names) ==
    \E k \in 1..Len(names) : StartsWith(names[k], << Slash >>)

\* C8 as stated: under a good chain the parent_path is the ancestors' names,
\* the root-most first, joined by '/'; and no parent_path begins with '/'.
C8_PathOfChain ==
    \A a \in Resolved :
        LET r == records[a]
        IN  /\ GoodChain(r) => r.parent_path = PlainJoin(AncestorNames(r))
            /\ ~StartsWith(r.parent_path, << Slash >>)

\* C8 amended: the same, the parent_path not beginning with '/' as long as no
\* ancestor's file name begins with '/'.
C8_PathOfChainAmended ==
    \A a \in Resolved :
        LET r == records[a]
        IN  /\ GoodChain(r) => r.parent_path = PlainJoin(AncestorNames(r))
            /\ StartsWith(r.parent_path, << Slash >>) => SomeBeginsWithSlash(AncestorNames(r))

\* a finished run with a resolved record under a chain of two named ancestors
\* that ends at the root
C8_Witness ==
    /\ kind = "mft" /\ pc = "done"
    /\ \E a \in Resolved :
           /\ GoodChain(records[a])
           /\ Len(Ancestors(records[a]).idx) = 2
           /\ ~SomeBeginsWithSlash(AncestorNames(records[a]))

\* a resolved record under a chain of named ancestors that ends at the root and
\* is as long as the depth limit allows
C8_WitnessLongChain ==
    /\ kind = "mft"
    /\ \E a \in Resolved :
           /\ GoodChain(records[a])
           /\ Len(Ancestors(records[a]).idx) = MAX_DEPTH + 1

\* a finished run with a resolved record whose parent's name begins with '/'
C8_WitnessSlash ==
    /\ kind = "mft" /\ pc = "done"
    /\ \E a \in Resolved :
           /\ ResolverRecurses(records[a])
           /\ SomeBeginsWithSlash(AncestorNames(records[a]))

-----------------------------------------------------------------------------
(* Properties of the FILETIME conversions and of the stream parsers *)

\* whether the FILETIME is 0 or falls before the Unix epoch:
\* filetime / 10^7 < 11644473600
BeforeUnixEpoch(ft) == Cmp(DivTenMillion(ft).q, FILETIME_UNIX_DIFF) < 0

\* C9: for a FILETIME of 0 or before the Unix epoch every decoder's conversion
\* stores no timestamp (None), and never the instant 1970-01-01 00:00:00.
C9_PreEpochYieldsNone ==
    (kind = "time" /\ converted # << >> /\ BeforeUnixEpoch(filetime))
        => /\ ~converted[1].panic
           /\ converted[1].timestamp = None

\* C10: I30Parser::parse, UsnJournalParser::parse and SdsParser::parse return
\* Ok or Err on every buffer and never panic.
C10_ParsersTotal == kind \in {"usn", "i30", "sds"} => result # "panic"

-----------------------------------------------------------------------------
(* Properties of the USN journal parser *)

\* whether the positions are those of a walk from 0 in which each step is the
\* length (by lengthAt) of the record at the position before, and `at` is
\* the position behind the last of them
IsWalk(positions, at, first, lengthAt(_)) ==
    /\ \A k \in 1..Len(positions) :
           positions[k] = IF k = 1 THEN first
                          ELSE positions[k - 1] + lengthAt(positions[k - 1])
    /\ at = IF positions = << >> THEN first
            ELSE positions[Len(positions)] + lengthAt(positions[Len(positions)])

\* whether a whole header with a record_length of 0 lies at position p
ZeroRecordAt(p) == p + USN_HEADER_SIZE <= data.len /\ Word(data, p, 4) = <<0, 0, 0, 0>>

\* C11: the starts of the records parsed are strictly increasing, each with its
\* 60 bytes in the buffer (so they are fewer than the buffer has bytes and the
\* loop ends); each record begins where the record_length of the one before
\* leads; a record_length of 0 is never passed: there parse ends with Ok and
\* the entries emitted so far.
C11_UsnWalk ==
    kind = "usn" =>
        /\ Len(entries) = Len(starts)
        /\ Len(starts) <= data.len
        /\ \A k \in 1..Len(starts) :
               /\ starts[k] + 60 <= data.len
               /\ k > 1 => starts[k - 1] < starts[k]
               /\ ~ZeroRecordAt(starts[k])
        /\ pc \in {"loop", "done"} =>
               IsWalk(starts, pos, 0, LAMBDA p : Length32(data, p))
        /\ (pc # "loop" /\ ZeroRecordAt(pos)) => pc = "done" /\ result = "Ok"
        /\ pc = "done" =>
               /\ result = "Ok"
               /\ ~(pos < data.len) \/ pos + 60 > data.len \/ ZeroRecordAt(pos)

\* a finished run that emitted two records and stopped at a record_length of 0
\* with a well-formed record behind it
C11_Witness ==
    /\ kind = "usn" /\ pc = "done"
    /\ Len(entries) = 2
    /\ ZeroRecordAt(pos)
    /\ pos + 60 + 60 <= data.len
    /\ Length32(data, pos + 60) = 64

\* C12: no entry is emitted for a record whose non-zero record_length leads
\* into the record's own header (parse aborts with an error instead).
C12_ShortRecordAborts ==
    kind = "usn" => \A k \in 1..Len(entries) : entries[k].offset >= USN_HEADER_SIZE

-----------------------------------------------------------------------------
(* Properties of format_usn_reason *)

\* nibble m of a u32 word, nibble 0 the least significant
Nibble(w, m) == (w[m \div 2 + 1] \div (IF m % 2 = 1 THEN 16 ELSE 1)) % 16

\* the positions in the table of the flags whose bit is set in w
KnownFlags(w) == {k \in 1..Len(USN_REASONS) : Bit(w, USN_REASONS[k].bit) = 1}

\* the j-th smallest element of a set of numbers
Ranked(S, j) == CHOOSE k \in S : Cardinality({m \in S : m <= k}) = j

\* C13: the table has 21 flags in ascending bit order, CLOSE (bit 31) last;
\* the result of format_usn_reason names exactly the flags of the table whose
\* bit is set, in table order, with " | " between them; when no flag of the
\* table is set it is "UNKNOWN(0x", the eight lowercase hex digits of the
\* value, most significant first, and ")".
C13_ReasonFormat ==
    (kind = "reason" /\ pc = "done") =>
        LET w == usn_reason.word
            text == usn_reason.text[1]
            S == KnownFlags(w)
            n == Cardinality(S)
        IN  /\ Len(USN_REASONS) = 21
            /\ \A k \in 2..21 : USN_REASONS[k - 1].bit < USN_REASONS[k].bit
            /\ USN_REASONS[21] = [bit |-> 31, name |-> "CLOSE"]
            /\ IF S = {}
               THEN /\ Len(text) = 10
                    /\ text[1] = "UNKNOWN(0x" /\ text[10] = ")"
                    /\ \A j \in 1..8 : text[j + 1] = HEX_DIGITS[Nibble(w, 8 - j) + 1]
               ELSE /\ Len(text) = 2 * n - 1
                    /\ \A j \in 1..n : text[2 * j - 1] = USN_REASONS[Ranked(S, j)].name
                    /\ \A j \in 1..(n - 1) : text[2 * j] = " | "
            /\ w = <<2, 1, 0, 0>> => text = << "DATA_EXTEND", " | ", "FILE_CREATE" >>

\* a formatted reason that has bits set but none of the table, its bytes
\* pairwise different
C13_Witness ==
    /\ kind = "reason" /\ pc = "done"
    /\ KnownFlags(usn_reason.word) = {}
    /\ usn_reason.word = <<8, 0, 192, 127>>

\* a formatted reason with CLOSE and other flags of the table
C13_WitnessFlags ==
    /\ kind = "reason" /\ pc = "done"
    /\ Cardinality(KnownFlags(usn_reason.word)) >= 3
    /\ 21 \in KnownFlags(usn_reason.word)

-----------------------------------------------------------------------------
(* Properties of the I30 parser *)

\* whether the block has its 40 header bytes and begins with "INDX"
ValidIndxHeader == data.len >= 40 /\ Word(data, 0, 4) = <<73, 78, 68, 88>>

\* where the header sends the cursor: 24 + entries_offset
FirstEntryAt == 24 + Length32(data, 24)

\* whether the 16 bytes parse_entry tests lie at p, with an entry_length of 0
\* or with flags & 2
EndEntryAt(p) ==
    /\ p + 16 <= data.len
    /\ U16(data, p + 8) = 0 \/ (Byte(data, p + 12) \div 2) % 2 = 1

\* C14: the entries emitted lie where the walk from 24 + entries_offset leads,
\* each where the entry_length of the one before ends, in that order; none of
\* them is an end entry (entry_length 0 or flags & 2); when the walk comes to
\* an end entry parse returns Ok with the entries before it and nothing else;
\* so an end entry right behind a valid header gives Ok and no entry.
C14_IndexWalkEnds ==
    (kind = "i30" /\ ValidIndxHeader) =>
        /\ Len(entries) = Len(starts)
        /\ \A k \in 1..Len(starts) :
               /\ ~EndEntryAt(starts[k])
               /\ k > 1 => starts[k - 1] < starts[k]
        /\ pc \in {"loop", "done"} =>
               IsWalk(starts, pos, FirstEntryAt, LAMBDA p : U16(data, p + 8))
        /\ (pc \notin {"header", "loop"} /\ EndEntryAt(pos)) => pc = "done" /\ result = "Ok"
        /\ (pc \notin {"header", "loop"} /\ EndEntryAt(FirstEntryAt)) =>
               result = "Ok" /\ entries = << >>

\* a finished run that emitted two entries and stopped at an end entry with
\* flags & 2 and a well-formed entry behind it
C14_Witness ==
    /\ kind = "i30" /\ pc = "done" /\ ValidIndxHeader
    /\ Len(entries) = 2
    /\ EndEntryAt(pos) /\ U16(data, pos + 8) # 0
    /\ pos + 16 + 88 <= data.len
    /\ ~EndEntryAt(pos + 16)

\* a finished run on a valid header with an end entry right behind it
C14_WitnessNoEntries ==
    /\ kind = "i30" /\ pc = "done" /\ ValidIndxHeader
    /\ EndEntryAt(FirstEntryAt) /\ U16(data, FirstEntryAt + 8) # 0

\* C15: on a buffer of at least 4 bytes that does not begin with "INDX" parse
\* returns an error with offset 0, and no entry is ever emitted.
C15_SignatureMismatch ==
    (kind = "i30" /\ data.len >= 4 /\ Word(data, 0, 4) # <<73, 78, 68, 88>>) =>
        /\ entries = << >>
        /\ pc \in {"header", "done"}
        /\ pc = "done" =>
               /\ result = "Err"
               /\ error # None
               /\ error[1].offset = Some(0)

\* a finished run on a block that lacks the signature and holds a whole
\* header and a well-formed entry behind it
C15_Witness ==
    /\ kind = "i30" /\ pc = "done"
    /\ data.len >= 40 + 88
    /\ Word(data, 0, 4) # <<73, 78, 68, 88>>
    /\ ~EndEntryAt(FirstEntryAt)

-----------------------------------------------------------------------------
(* Properties of BootParser and of detect_file_type *)

\* C16: BootParser::parse returns an error and no BootSector for a buffer of
\* fewer than 512 bytes, and a BootSector whose volume_label is empty for every
\* buffer of 512 bytes or more, whatever its bytes 3..11 are.
C16_BootSectorSize ==
    (kind = "boot" /\ pc # "call") =>
        IF data.len < 512
        THEN result = "Err" /\ error # None /\ boot_sector = None
        ELSE /\ result = "Ok" /\ error = None
             /\ boot_sector # None
             /\ boot_sector[1].volume_label = << >>

\* a parsed buffer of exactly 512 bytes whose bytes 3..11 are not "NTFS    "
C16_Witness ==
    /\ kind = "boot" /\ pc = "done"
    /\ data.len = 512
    /\ Word(data, 3, 8) = <<77, 83, 68, 79, 83, 53, 46, 48>>
    /\ boot_sector # None
    /\ boot_sector[1].oem_id = <<77, 83, 68, 79, 83, 53, 46, 48>>

\* a refused buffer of 511 bytes
C16_WitnessShort ==
    kind = "boot" /\ pc = "done" /\ data.len = 511 /\ result = "Err"

\* the first four bytes as a number, when it is below 2^16, else 2^16
FirstWord16(d) ==
    IF Byte(d, 2) # 0 \/ Byte(d, 3) # 0 THEN 65536 ELSE Byte(d, 0) + 256 * Byte(d, 1)

\* C17: detect_file_type gives Unknown for fewer than 4 bytes; else MFT for
\* "FILE" and I30 for "INDX" in the first four bytes; else Boot for 512 bytes
\* or more with "NTFS    " in bytes 3..11; else USN for 60 bytes or more with
\* the first u32 strictly between 60 and 65536; else Unknown.
C17_DetectRules ==
    (kind = "detect" /\ pc = "done") =>
        LET t == file_type[1]
            first == << Byte(data, 0), Byte(data, 1), Byte(data, 2), Byte(data, 3) >>
            ntfs == \A k \in 1..8 : Byte(data, 2 + k) = <<78, 84, 70, 83, 32, 32, 32, 32>>[k]
        IN  /\ data.len < 4 => t = "Unknown"
            /\ (data.len >= 4 /\ first = <<70, 73, 76, 69>>) => t = "Mft"
            /\ (data.len >= 4 /\ first = <<73, 78, 68, 88>>) => t = "I30"
            /\ (data.len >= 4 /\ first \notin {<<70, 73, 76, 69>>, <<73, 78, 68, 88>>}) =>
                   IF data.len >= 512 /\ ntfs THEN t = "Boot"
                   ELSE IF data.len >= 60 /\ FirstWord16(data) > 60
                                        /\ FirstWord16(data) < 65536
                   THEN t = "UsnJournal"
                   ELSE t = "Unknown"

\* a file of 60 bytes or more whose first u32 is 60, classified
C17_Witness ==
    /\ kind = "detect" /\ pc = "done"
    /\ data.len >= 60
    /\ FirstWord16(data) = 60

\* files classified as each of the five kinds
C17_WitnessBoot ==
    kind = "detect" /\ pc = "done" /\ file_type = Some("Boot")

-----------------------------------------------------------------------------
(* The order of the output *)

\* C18: in a parser's first parse() the records of MftParser are in slot
\* order, their entry numbers strictly increasing; the entries of the USN and
\* I30 parsers and the descriptors of the SDS parser are in the order of their
\* start positions, which strictly increase.
C18_OutputOrder ==
    /\ (kind = "mft" /\ seen = << >>) =>
           \A a, b \in 1..Len(records) :
               a < b => records[a].entry_number < records[b].entry_number
    /\ (kind \in {"usn", "i30"} /\ seen = << >>) =>
           /\ Len(entries) = Len(starts)
           /\ \A k \in 2..Len(starts) : starts[k - 1] < starts[k]
           /\ \A k \in 1..Len(entries) :
                  entries[k].entry_number
                      = Word(data, starts[k] + (IF kind = "usn" THEN 8 ELSE 0), 4)
    /\ (kind = "sds" /\ seen = << >>) =>
           /\ \A k \in 2..Len(descriptors) :
                  descriptors[k - 1].offset < descriptors[k].offset
           /\ \A k \in 1..Len(descriptors) :
                  descriptors[k].id = Word(data, descriptors[k].offset + 4, 4)

\* a finished MFT run with three records or more, a slot without a record
\* between two of them
C18_Witness ==
    /\ kind = "mft" /\ pc = "done"
    /\ Len(records) >= 3
    /\ \E a \in 2..Len(records) : records[a].entry_number > records[a - 1].entry_number + 1

\* a finished USN, I30 or SDS run with two records of different entry numbers
\* or ids
C18_WitnessStreams ==
    /\ pc = "done"
    /\ \/ kind \in {"usn", "i30"} /\ Len(entries) = 2
          /\ entries[1].entry_number # entries[2].entry_number
       \/ kind = "sds" /\ Len(descriptors) >= 2 /\ descriptors[1].id # descriptors[2].id

-----------------------------------------------------------------------------
(* The frame of the resolver pass *)

\* the records with their parent_path blanked
WithoutParentPath(recs) ==
    [a \in 1..Len(recs) |-> [recs[a] EXCEPT !.parent_path = << >>]] \o << >>

\* a step of resolve_parent_paths or of build_path, or the step into or out of
\* the resolver pass
ResolverStep == kind = "mft" /\ (pc \in {"resolve", "build"} \/ pc' \in {"resolve", "build"})

\* C19: a step of the resolver pass leaves the input buffer, the entry map,
\* the number and order of the records and every field of every record other
\* than parent_path as they were.
C19_ResolverFrame ==
    [][ResolverStep =>
           /\ data' = data
           /\ entry_map' = entry_map
           /\ WithoutParentPath(records') = WithoutParentPath(records)]_vars

\* a finished run in which the resolver gave two records a parent_path that
\* is not empty
C19_Witness ==
    /\ kind = "mft" /\ pc = "done"
    /\ \E a, b \in 1..Len(records) :
           /\ a # b
           /\ records[a].parent_path # << >>
           /\ records[b].parent_path # << >>

-----------------------------------------------------------------------------
(* The FILETIME round trip *)

\* a + b modulo 2^(8 * Len(a))
WordAdd(a, b) ==
    LET Carry[k \in 0..Len(a)] ==
            IF k = 0 THEN 0 ELSE (a[k] + b[k] + Carry[k - 1]) \div 256
    IN  [k \in 1..Len(a) |-> (a[k] + b[k] + Carry[k - 1]) % 256] \o << >>

\* w * m modulo 2^(8 * Len(w)), for m <= 10000
WordTimes(w, m) ==
    LET Carry[k \in 0..Len(w)] ==
            IF k = 0 THEN 0 ELSE (w[k] * m + Carry[k - 1]) \div 256
    IN  [k \in 1..Len(w) |-> (w[k] * m + Carry[k - 1]) % 256] \o << >>

\* the FILETIME of the instant: (secs + 11644473600) * 10^7 + nanos / 100
FiletimeOf(t) ==
    WordAdd(WordTimes(WordTimes(WordAdd(t.secs, FILETIME_UNIX_DIFF), 10000), 1000),
            LE64(t.nanos \div 100))

\* C20: the instant decoded from a FILETIME at or after the Unix epoch has
\* nanoseconds that are a multiple of 100 and below 10^9, and
\* (secs + 11644473600) * 10^7 + nanos / 100 is the FILETIME again.
C20_FiletimeRoundTrip ==
    (kind = "time" /\ converted # << >> /\ ~BeforeUnixEpoch(filetime)) =>
        /\ ~converted[1].panic
        /\ LET t == converted[1].timestamp[1]
           IN  /\ t.nanos % 100 = 0
               /\ t.nanos >= 0 /\ t.nanos < 1000000000
               /\ FiletimeOf(t) = filetime

\* a FILETIME after the Unix epoch with a fraction of a second, decoded by the
\* MFT parser's conversion
C20_Witness ==
    /\ kind = "time" /\ pc = "done"
    /\ converted # << >>
    /\ converted[1].by = "mft"
    /\ ~BeforeUnixEpoch(filetime)
    /\ converted[1].timestamp[1].nanos > 0
    /\ converted[1].timestamp[1].secs # Zero8

-----------------------------------------------------------------------------
(* File references *)

\* a parser has just emitted an entry decoded at the cursor position pos
EntryEmitted == kind \in {"usn", "i30"} /\ Len(entries') = Len(entries) + 1

\* the attribute walk has just decoded a $FILE_NAME at the cursor position pos
FileNameDecoded ==
    /\ kind = "mft" /\ pc = "attrs" /\ pc' = "attrs"
    /\ Word(data, offset + pos, 4) = ATTR_FILE_NAME

\* C21: the entry number decoded from a 64-bit file reference is the
\* reference's low 48 bits and the sequence number its high 16 bits, in the
\* USN and I30 entries (file and parent reference) and in the MFT record's
\* parent reference.
C21_FileReference48 ==
    [][/\ EntryEmitted =>
              LET e == entries'[Len(entries')]
                  at == IF kind = "usn" THEN pos + 8 ELSE pos
                  file_reference == Word(data, at, 8)
                  parent_file_reference == Word(data, pos + 16, 8)
              IN  /\ e.entry_number \o <<0, 0>> = SubSeq(file_reference, 1, 6)
                  /\ e.sequence_number = Val(SubSeq(file_reference, 7, 8))
                  /\ e.parent_entry_number \o <<0, 0>> = SubSeq(parent_file_reference, 1, 6)
                  /\ e.parent_sequence_number = Val(SubSeq(parent_file_reference, 7, 8))
       /\ FileNameDecoded =>
              LET parent_reference == Word(data, offset + pos + 24, 8)
              IN  /\ LE(record'.parent_entry_number, 4) \o <<0, 0>>
                         = SubSeq(parent_reference, 1, 6)
                  /\ record'.parent_sequence_number
                         = Some(Val(SubSeq(parent_reference, 7, 8)))]_vars

\* the part of C21 that holds: the low 32 bits and the high 16 bits
C21_FileReference32 ==
    [][/\ EntryEmitted =>
              LET e == entries'[Len(entries')]
                  at == IF kind = "usn" THEN pos + 8 ELSE pos
                  file_reference == Word(data, at, 8)
                  parent_file_reference == Word(data, pos + 16, 8)
              IN  /\ e.entry_number = SubSeq(file_reference, 1, 4)
                  /\ e.sequence_number = Val(SubSeq(file_reference, 7, 8))
                  /\ e.parent_entry_number = SubSeq(parent_file_reference, 1, 4)
                  /\ e.parent_sequence_number = Val(SubSeq(parent_file_reference, 7, 8))
       /\ FileNameDecoded =>
              LET parent_reference == Word(data, offset + pos + 24, 8)
              IN  /\ LE(record'.parent_entry_number, 4) = SubSeq(parent_reference, 1, 4)
                  /\ record'.parent_sequence_number
                         = Some(Val(SubSeq(parent_reference, 7, 8)))]_vars

-----------------------------------------------------------------------------
(* The extension and the names of an MFT record *)

\* the part of name behind its last '.', empty when it has none
AfterLastDot(name) ==
    IF \A k \in 1..Len(name) : name[k] # Dot THEN << >>
    ELSE LET last == CHOOSE k \in 1..Len(name) :
                         name[k] = Dot /\ \A j \in (k + 1)..Len(name) : name[j] # Dot
         IN  SubSeq(name, last + 1, Len(name))

\* C22: the extension of every emitted MFT record is the part of the record's
\* final file_name behind its last '.', and empty when that name has no '.'.
C22_ExtensionOfFinalName ==
    kind = "mft" =>
        \A k \in 1..Len(records) : records[k].extension = AfterLastDot(records[k].file_name)

\* what a $FILE_NAME attribute sets in a record
NameFields(rec) ==
    << rec.file_name, rec.name_type, rec.parent_entry_number, rec.parent_sequence_number,
       rec.file_size, rec.created_0x30, rec.last_modified_0x30,
       rec.last_record_change_0x30, rec.last_access_0x30 >>

\* the same, read from the body of the $FILE_NAME attribute at b
NameFieldsAt(b) ==
    << string_from_utf16le(Word(data, b + 74, 2 * Byte(data, b + 72))),
       Byte(data, b + 73),
       Val(Word(data, b + 8, 4)),
       Some(Val(Word(data, b + 14, 2))),
       Word(data, b + 56, 8),
       Some(windows_filetime_to_datetime(Word(data, b + 16, 8))),
       Some(windows_filetime_to_datetime(Word(data, b + 24, 8))),
       Some(windows_filetime_to_datetime(Word(data, b + 32, 8))),
       Some(windows_filetime_to_datetime(Word(data, b + 40, 8))) >>

\* C23: of several $FILE_NAME attributes the one decoded last determines
\* file_name, name_type, the parent, file_size and the 0x30 timestamps of the
\* emitted record: every $FILE_NAME the walk decodes replaces them, no other
\* attribute changes them, and the record is emitted as the walk left it.
C23_LastFileNameWins ==
    [][kind = "mft" /\ pc = "attrs" =>
          /\ FileNameDecoded => NameFields(record') = NameFieldsAt(offset + pos + 16)
          /\ (pc' = "attrs" /\ ~FileNameDecoded) => NameFields(record') = NameFields(record)
          /\ pc' = "slot" => records' = Append(records, record)]_vars

\* the record of a slot with the DOS name "FOO~1.TXT" in front of the Win32
\* name "Foo.txt" is emitted as "Foo.txt" with name_type 1
C23_Witness ==
    /\ kind = "mft"
    /\ \E k \in 1..Len(records) :
          LET base == records[k].entry_number * MFT_RECORD_SIZE
              dos == base + AttrStart(<< SI(FT_2019), FN(ROOT_ENTRY, 2, NAME_DOS) >>, 56, 2) + 16
          IN  /\ Word(data, dos - 16, 4) = ATTR_FILE_NAME
              /\ Byte(data, dos + 73) = 2
              /\ Word(data, dos + 74, 2 * Len(NAME_DOS)) = Utf16Bytes(NAME_DOS)
              /\ records[k].file_name = NAME_WIN32
              /\ records[k].name_type = 1

-----------------------------------------------------------------------------
(* The parent that is not found *)

\* whether s holds the string t from its p-th character on
OccursAt(s, t, p) == p + Len(t) - 1 <= Len(s) /\ SubSeq(s, p, p + Len(t) - 1) = t

\* whether entry is neither the root nor the entry of an emitted record
IsMissing(entry) == entry # ROOT_ENTRY /\ entry \notin DOMAIN entry_map

-----------------------------------------------------------------------------
(* Properties of the SDS parser *)

\* where the entry behind the last emitted descriptor starts
SdsEnd ==
    IF descriptors = << >> THEN 0
    ELSE LET last == descriptors[Len(descriptors)]
         IN  last.offset + 20 + last.length

\* the length field of the entry at p, when it is at most 0x10000, else 0x10001
SdsLengthAt(p) ==
    IF Byte(data, p + 19) # 0 \/ Byte(data, p + 18) > 1 THEN 65537
    ELSE IF Byte(data, p + 18) = 1 /\ (Byte(data, p + 17) # 0 \/ Byte(data, p + 16) # 0)
    THEN 65537
    ELSE Byte(data, p + 16) + 256 * Byte(data, p + 17) + 65536 * Byte(data, p + 18)

\* whether the entry at p has a length field of 0 or above 0x10000
SdsStopsAt(p) == SdsLengthAt(p) = 0 \/ SdsLengthAt(p) = 65537

\* C25: SdsParser::parse never fails; every emitted descriptor has a length
\* from 1 to 0x10000 and holds exactly the length bytes behind its header, all
\* of them in the buffer; and parse ends, keeping what it emitted, at the end of
\* the buffer, at a header cut off by it, at the first entry whose length is 0
\* or above 0x10000, or at an entry whose payload is cut off.
C25_SdsWalkEnds ==
    kind = "sds" =>
        /\ result \in {"none", "Ok"}
        /\ pos = SdsEnd
        /\ \A k \in 1..Len(descriptors) :
              LET d == descriptors[k]
              IN  /\ d.length >= 1 /\ d.length <= 65536
                  /\ d.length = SdsLengthAt(d.offset)
                  /\ Len(d.descriptor) = d.length
                  /\ d.offset + 20 + d.length <= data.len
                  /\ \A j \in 1..d.length : d.descriptor[j] = Byte(data, d.offset + 20 + j - 1)
        /\ pc = "done" =>
              /\ result = "Ok"
              /\ \/ SdsEnd + 20 > data.len
                 \/ SdsStopsAt(SdsEnd)
                 \/ SdsEnd + 20 + SdsLengthAt(SdsEnd) > data.len

\* parse has emitted the descriptors in front of an entry with a length of 0 or
\* above 0x10000 whose header and 0x10001 bytes behind it lie in the buffer
C25_Witness ==
    /\ kind = "sds" /\ pc = "done" /\ result = "Ok"
    /\ Len(descriptors) >= 1
    /\ SdsEnd + 20 + 65537 <= data.len
    /\ SdsLengthAt(SdsEnd) = 65537

\* a descriptor of 0x10000 bytes is emitted
C25_WitnessLimit ==
    /\ kind = "sds" /\ pc = "done"
    /\ \E k \in 1..Len(descriptors) : descriptors[k].length = 65536

\* an entry whose payload is cut off is not emitted, the ones in front of it are
C25_WitnessCutOff ==
    /\ kind = "sds" /\ pc = "done" /\ result = "Ok"
    /\ Len(descriptors) >= 1
    /\ SdsEnd + 20 <= data.len
    /\ ~SdsStopsAt(SdsEnd)
    /\ SdsEnd + 20 + SdsLengthAt(SdsEnd) > data.len

\* C26: the offset of an emitted SDS descriptor is where its header starts in
\* the buffer, whatever the entry's own offset field holds: the first
\* descriptor has offset 0, each further one starts 20 + length bytes behind
\* the one before, and hash and id are the ones read at that place.
C26_SdsOffsets ==
    kind = "sds" =>
        /\ descriptors # << >> => descriptors[1].offset = 0
        /\ \A k \in 1..(Len(descriptors) - 1) :
              descriptors[k + 1].offset = descriptors[k].offset + 20 + descriptors[k].length
        /\ \A k \in 1..Len(descriptors) :
              /\ descriptors[k].hash = Word(data, descriptors[k].offset, 4)
              /\ descriptors[k].id = Word(data, descriptors[k].offset + 4, 4)

\* three descriptors, one of them with an offset field that is not its place
\* and none of them at a multiple of 16 behind the first
C26_Witness ==
    /\ kind = "sds" /\ pc = "done"
    /\ Len(descriptors) = 3
    /\ \E k \in 1..3 :
          Word(data, descriptors[k].offset + 8, 8) # LE64(descriptors[k].offset)
    /\ \A k \in 2..3 : descriptors[k].offset % 16 # 0

-----------------------------------------------------------------------------
(* The entry map *)

\* the keys of the entry map are the entry numbers of the emitted records, and
\* each key's value is the index (0-based) of the record with that number
EntryMapMatches ==
    /\ DOMAIN entry_map = {records[k].entry_number : k \in 1..Len(records)}
    /\ \A k \in 1..Len(records) : entry_map[records[k].entry_number] = k - 1

\* no call of build_path is about to return "...[invalid index]", and no path
\* the resolver has stored begins with it
NoInvalidIndex ==
    /\ pc = "build" =>
          /\ path_entry \in DOMAIN entry_map => entry_map[path_entry] < Len(records)
          /\ build_path_base(records, path_entry, entry_map, Len(frames)) # Some(INVALID_INDEX)
    /\ \A a \in Resolved : ~OccursAt(records[a].parent_path, INVALID_INDEX, 1)

\* C27: throughout one parse of a fresh MftParser the entry map's keys are the
\* entry numbers of the emitted records and entry_map[records[i].entry_number]
\* is i; build_path never returns "...[invalid index]"; and the resolver pass
\* leaves the map as the first pass built it.
C27_EntryMap ==
    /\ [](kind = "mft" => EntryMapMatches /\ NoInvalidIndex)
    /\ [][(kind = "mft" /\ pc \in {"resolve", "build"}) => entry_map' = entry_map]_vars

\* the parse is over, the map's values differ from its keys (a slot in front
\* was skipped), and build_path has looked a record up in the map
C27_Witness ==
    /\ kind = "mft" /\ pc = "done"
    /\ Len(records) >= 2
    /\ \E k \in 1..Len(records) :
          /\ records[k].entry_number # k - 1
          /\ entry_map[records[k].entry_number] = k - 1
    /\ \E k \in 1..Len(records) : calls[k] >= 2

-----------------------------------------------------------------------------
(* parse() called twice *)

\* what the parser's accessor returns
Output ==
    IF kind = "mft" THEN records ELSE IF kind = "sds" THEN descriptors ELSE entries

\* no parse() has begun to work: the first call is at its first step
BeforeParse ==
    /\ seen = << >> /\ result = "none"
    /\ pc = (IF kind = "mft" THEN "slot" ELSE IF kind = "i30" THEN "header" ELSE "loop")
    /\ offset = 0 /\ pos = 0

\* C28: the accessor returns the empty sequence before parse() is called; and
\* when parse() has returned Ok(()) twice on one parser, the output is what it
\* was after the first call, followed by the same once more.
C28_ParseAppends ==
    kind \in {"mft", "usn", "i30", "sds"} =>
        /\ BeforeParse => Output = << >>
        /\ (Len(seen) = 1 /\ pc = "done" /\ result = "Ok") => Output = seen[1] \o seen[1]

\* an MFT parser called twice whose first call emitted two records or more,
\* one of them with a parent path
C28_Witness ==
    /\ kind = "mft" /\ pc = "done" /\ result = "Ok"
    /\ Len(seen) = 1 /\ Len(seen[1]) >= 2
    /\ \E k \in 1..Len(seen[1]) : seen[1][k].parent_path # << >>
    /\ Len(records) = 2 * Len(seen[1])

\* a USN, I30 or SDS parser called twice whose first call emitted something
C28_WitnessUsn ==
    /\ kind = "usn" /\ pc = "done" /\ result = "Ok"
    /\ Len(seen) = 1 /\ seen[1] # << >> /\ Len(entries) = 2 * Len(seen[1])

C28_WitnessI30 ==
    /\ kind = "i30" /\ pc = "done" /\ result = "Ok"
    /\ Len(seen) = 1 /\ seen[1] # << >> /\ Len(entries) = 2 * Len(seen[1])

C28_WitnessSds ==
    /\ kind = "sds" /\ pc = "done" /\ result = "Ok"
    /\ Len(seen) = 1 /\ seen[1] # << >> /\ Len(descriptors) = 2 * Len(seen[1])

-----------------------------------------------------------------------------
(* Records without a $FILE_NAME *)

\* whether s ends with the string t
EndsWith(s, t) == Len(s) >= Len(t) /\ SubSeq(s, Len(s) - Len(t) + 1, Len(s)) = t

\* C29: a record without a $FILE_NAME (its parent_sequence_number is absent)
\* has parent_entry_number 0; once resolved, its parent_path is empty if it is
\* entry 0 itself, "...[parent not found]" if the entry map has no entry 0,
\* and else a path that ends with the file name of entry 0's record, that name
\* alone when entry 0 is a child of the root.
C29_NoFileName ==
    kind = "mft" =>
        /\ (pc = "attrs" /\ record.parent_sequence_number = None)
               => record.parent_entry_number = 0
        /\ \A a \in 1..Len(records) :
              LET r == records[a]
                  path == r.parent_path
              IN  r.parent_sequence_number = None =>
                      /\ r.parent_entry_number = 0
                      /\ r.file_name = << >>
                      /\ a \in Resolved =>
                            IF r.entry_number = 0 THEN path = << >>
                            ELSE IF 0 \notin DOMAIN entry_map THEN path = PARENT_NOT_FOUND
                            ELSE LET name == records[entry_map[0] + 1].file_name
                                 IN  /\ EndsWith(path, name)
                                     /\ Len(path) > Len(name) => path[Len(path) - Len(name)] = Slash
                                     /\ records[entry_map[0] + 1].parent_entry_number = ROOT_ENTRY
                                            => path = name

\* a resolved record without a $FILE_NAME in a slot behind slot 0, whose path
\* is the name of entry 0's record
C29_Witness ==
    /\ kind = "mft" /\ pc = "done"
    /\ \E a \in Resolved :
          /\ records[a].parent_sequence_number = None
          /\ records[a].entry_number # 0
          /\ 0 \in DOMAIN entry_map
          /\ records[entry_map[0] + 1].file_name # << >>
          /\ records[a].parent_path = records[entry_map[0] + 1].file_name

\* the same with no record for entry 0, and with entry 0 itself
C29_WitnessNotFound ==
    /\ kind = "mft" /\ pc = "done"
    /\ \E a \in Resolved :
          /\ records[a].parent_sequence_number = None
          /\ records[a].entry_number # 0
          /\ records[a].parent_path = PARENT_NOT_FOUND

C29_WitnessEntryZero ==
    /\ kind = "mft" /\ pc = "done"
    /\ \E a, b \in Resolved :
          /\ records[a].parent_sequence_number = None /\ records[a].entry_number = 0
          /\ records[b].parent_sequence_number = None /\ records[b].entry_number # 0
          /\ records[b].parent_path # << >>

-----------------------------------------------------------------------------
(* The dispatch of main *)

C30_WitnessAsUsn ==
    /\ kind = "detect" /\ pc = "process_usn_journal"
    /\ Word(data, 0, 4) = <<52, 18, 0, 0>>
    /\ Word(data, 16, 4) = <<60, 0, 0, 0>>

C30_WitnessLogFile ==
    /\ kind = "detect" /\ pc = "exit"
    /\ Word(data, 0, 4) = <<82, 83, 84, 82>>
    /\ data.len = 4096

=============================================================================
